---- MODULE Spec2Model ----
(***************************************************************************)
(* The turn orchestrator of GPT-DnD (backend/services/dm_agent.py) with    *)
(* the three model-backend adapters it drives, the conversation log, and   *)
(* the part of the game engine its tools act on.                           *)
(*                                                                         *)
(* Text is modelled as a sequence of one-character strings, so that the    *)
(* string operations of the code (rstrip, endswith, rfind, slicing, the    *)
(* substring test `word in action_lower`) are computed as Python computes  *)
(* them.  Python's None and "" are both the empty sequence: every place of *)
(* the orchestrator that reads a response text tests its truthiness only   *)
(* (`response.text or ""`, `if response.text:`).                           *)
(***************************************************************************)
EXTENDS Integers, Sequences, FiniteSets, TLC

\* ------------------------------------------------------------------ bounds
\* Turns started in one behaviour.
MaxTurns == 1
\* Tool calls carried by one model response.
MaxCalls == 2
\* Length of the model texts enumerated for the truncation repair.
MaxText == 3
\* Length of the logs and the limits enumerated for the trimming.
MaxLog == 4
\* Operations called on the adventure in one behaviour.
MaxOps == 4
\* Operations in one behaviour of the thirteen state updates together.
MaxUpdates == 3

\* ------------------------------------------------------- program constants
\* dm_agent.py:587  self._trim_conversation_history(max_messages=50)
MaxMessages == 50

\* ----------------------------------------------------------- text helpers
Max(S) == CHOOSE x \in S : \A y \in S : y <= x
Min2(a, b) == IF a <= b THEN a ELSE b

\* str.isspace() on the one-character strings of the model's alphabet
IsSpace(c) == c \in {" ", "\n"}

RECURSIVE RStrip(_)
\* str.rstrip()
RStrip(s) ==
    IF s = <<>> THEN <<>>
    ELSE IF IsSpace(s[Len(s)]) THEN RStrip(SubSeq(s, 1, Len(s) - 1))
    ELSE s

RECURSIVE LStrip(_)
\* str.lstrip()
LStrip(s) ==
    IF s = <<>> THEN <<>>
    ELSE IF IsSpace(s[1]) THEN LStrip(Tail(s))
    ELSE s

\* str.strip()
Strip(s) == LStrip(RStrip(s))

\* str.endswith(tuple of one-character strings)
EndsWith(s, chars) == s # <<>> /\ s[Len(s)] \in chars

\* str.rfind(c): the 0-based index of the last occurrence of c, or -1
RFind(s, c) ==
    LET at == {i \in 1..Len(s) : s[i] = c}
    IN  IF at = {} THEN -1 ELSE Max(at) - 1

\* s[:n] for n >= 0
Slice(s, n) == SubSeq(s, 1, Min2(n, Len(s)))

\* `sub in s`
Contains(sub, s) ==
    \E i \in 0..(Len(s) - Len(sub)) : SubSeq(s, i + 1, i + Len(sub)) = sub

\* --------------------------------------------- keyword lists and fixed texts
\* DMAgent._detect_context: combat_words, scene_words, dialogue_words,
\* skill_words, explore_words
combat_words ==
    { <<"a", "t", "t", "a", "c", "k">>,
      <<"h", "i", "t">>,
      <<"s", "t", "r", "i", "k", "e">>,
      <<"s", "h", "o", "o", "t">>,
      <<"s", "t", "a", "b">>,
      <<"s", "l", "a", "s", "h">>,
      <<"c", "a", "s", "t">>,
      <<"f", "i", "r", "e", "b", "a", "l", "l">>,
      <<"s", "p", "e", "l", "l">>,
      <<"s", "w", "i", "n", "g">>,
      <<"p", "u", "n", "c", "h">>,
      <<"k", "i", "c", "k">> }

scene_words ==
    { <<"e", "n", "t", "e", "r">>,
      <<"a", "r", "r", "i", "v", "e">>,
      <<"o", "p", "e", "n", " ", "d", "o", "o", "r">>,
      <<"a", "p", "p", "r", "o", "a", "c", "h">>,
      <<"g", "o", " ", "t", "o">>,
      <<"w", "a", "l", "k", " ", "i", "n", "t", "o">>,
      <<"s", "t", "e", "p", " ", "i", "n", "t", "o">>,
      <<"m", "o", "v", "e", " ", "t", "o">>,
      <<"h", "e", "a", "d", " ", "t", "o">> }

dialogue_words ==
    { <<"t", "a", "l", "k">>,
      <<"s", "p", "e", "a", "k">>,
      <<"a", "s", "k">>,
      <<"t", "e", "l", "l">>,
      <<"s", "a", "y", " ", "t", "o">>,
      <<"g", "r", "e", "e", "t">>,
      <<"q", "u", "e", "s", "t", "i", "o", "n">>,
      <<"i", "n", "q", "u", "i", "r", "e">>,
      <<"c", "h", "a", "t">>,
      <<"c", "o", "n", "v", "e", "r", "s", "e">> }

skill_words ==
    { <<"s", "e", "a", "r", "c", "h">>,
      <<"i", "n", "v", "e", "s", "t", "i", "g", "a", "t", "e">>,
      <<"l", "o", "o", "k", " ", "f", "o", "r">>,
      <<"e", "x", "a", "m", "i", "n", "e">>,
      <<"c", "h", "e", "c", "k", " ", "f", "o", "r">>,
      <<"p", "e", "r", "c", "e", "i", "v", "e">>,
      <<"i", "n", "s", "p", "e", "c", "t">>,
      <<"s", "t", "u", "d", "y">> }

explore_words ==
    { <<"l", "o", "o", "k", " ", "a", "r", "o", "u", "n", "d">>,
      <<"s", "u", "r", "v", "e", "y">>,
      <<"o", "b", "s", "e", "r", "v", "e">>,
      <<"s", "c", "a", "n">>,
      <<"t", "a", "k", "e", " ", "i", "n">>,
      <<"v", "i", "e", "w">>,
      <<"r", "e", "g", "a", "r", "d">> }

LowerChar(c) ==
    CASE c = "A" -> "a"
      [] c = "B" -> "b"
      [] c = "C" -> "c"
      [] c = "D" -> "d"
      [] c = "E" -> "e"
      [] c = "F" -> "f"
      [] c = "G" -> "g"
      [] c = "H" -> "h"
      [] c = "I" -> "i"
      [] c = "J" -> "j"
      [] c = "K" -> "k"
      [] c = "L" -> "l"
      [] c = "M" -> "m"
      [] c = "N" -> "n"
      [] c = "O" -> "o"
      [] c = "P" -> "p"
      [] c = "Q" -> "q"
      [] c = "R" -> "r"
      [] c = "S" -> "s"
      [] c = "T" -> "t"
      [] c = "U" -> "u"
      [] c = "V" -> "v"
      [] c = "W" -> "w"
      [] c = "X" -> "x"
      [] c = "Y" -> "y"
      [] c = "Z" -> "z"
      [] OTHER -> c
MsgAttack == <<"I", " ", "a", "t", "t", "a", "c", "k">>
MsgHi == <<"H", "i">>
Question == <<" ", "W", "h", "a", "t", " ", "d", "o", " ", "y", "o", "u", " ", "d", "o", "?">>
Fallback == <<"W", "h", "a", "t", " ", "d", "o", " ", "y", "o", "u", " ", "d", "o", "?">>

\* str.lower()
Lower(s) == [i \in 1..Len(s) |-> LowerChar(s[i])]

\* any(word in action_lower for word in words)
AnyWordIn(words, action_lower) == \E w \in words : Contains(w, action_lower)

\* ------------------------------------------------------------ game engine
\* GameEngine.__init__: self.combat_state = {"active": False}
CombatIdle == [active |-> FALSE]

\* GameEngine.start_combat: the state it installs; CombatEngine.round_number
\* starts at 1 and no tool advances it.
CombatStarted == [active |-> TRUE, round |-> 1]

\* GameEngine.end_combat: the state it installs (no "round" key)
CombatEnded == [active |-> FALSE]

\* GameEngine.get_state: the keys the orchestrator can read.  The combat
\* state is under "combat"; there is no "combat_active" key.
GetState(cs) == [combat |-> cs, location |-> "None"]

\* _detect_context with the dialogue words tested before the scene words
DetectContextDialogueFirst(action, game_state) ==
    LET action_lower == Lower(action)
    IN  IF "combat_active" \in DOMAIN game_state /\ game_state["combat_active"] = TRUE
            THEN "combat_action"
        ELSE IF AnyWordIn(combat_words, action_lower) THEN "combat_action"
        ELSE IF AnyWordIn(dialogue_words, action_lower) THEN "npc_dialogue"
        ELSE IF AnyWordIn(scene_words, action_lower) THEN "scene_description"
        ELSE IF AnyWordIn(skill_words, action_lower) THEN "skill_check"
        ELSE IF AnyWordIn(explore_words, action_lower) THEN "exploration"
        ELSE "standard"

\* DMAgent._detect_context(action, game_state)
DetectContext(action, game_state) ==
    LET action_lower == Lower(action)
    IN  IF "combat_active" \in DOMAIN game_state /\ game_state["combat_active"] = TRUE
            THEN "combat_action"
        ELSE IF AnyWordIn(combat_words, action_lower) THEN "combat_action"
        ELSE IF AnyWordIn(scene_words, action_lower) THEN "scene_description"
        ELSE IF AnyWordIn(dialogue_words, action_lower) THEN "npc_dialogue"
        ELSE IF AnyWordIn(skill_words, action_lower) THEN "skill_check"
        ELSE IF AnyWordIn(explore_words, action_lower) THEN "exploration"
        ELSE "standard"

ContextTypes ==
    {"scene_description", "combat_action", "npc_dialogue", "skill_check",
     "exploration", "standard"}

\* ------------------------------------------------------------------ tools
\* The required parameters get_param() is called for, per tool
\* (parameters.get(...) never raises).
RequiredParams(tool_name) ==
    CASE tool_name = "roll_dice" -> {"dice"}
      [] tool_name = "skill_check" -> {"character", "skill", "dc"}
      [] tool_name = "saving_throw" -> {"character", "ability", "dc"}
      [] tool_name = "attack_roll" -> {"attacker", "target"}
      [] tool_name = "update_hp" -> {"character", "hp_change"}
      [] tool_name = "start_combat" -> {"participants"}
      [] tool_name = "get_character_info" -> {"character"}
      [] tool_name = "add_to_inventory" -> {"character", "item"}
      [] OTHER -> {}

KnownTools ==
    {"roll_dice", "skill_check", "saving_throw", "attack_roll", "update_hp",
     "start_combat", "end_combat", "get_character_info", "add_to_inventory",
     "check_level_up_status", "long_rest"}

\* What a tool returns: a value of the engine, or an {"error": ...} object.
ToolValue(tool_name) == [error |-> FALSE, success_false |-> FALSE, of |-> tool_name]
\* dm_agent.py:743  {"error": f"Unknown tool: {tool_name}"}
UnknownToolResult(tool_name) == [error |-> TRUE, success_false |-> FALSE, of |-> tool_name]
\* dm_agent.py:425  {"error": error_msg, "success": False}
ErrorResult(tool_name) == [error |-> TRUE, success_false |-> TRUE, of |-> tool_name]

\* DMAgent._execute_tool(tool_name, parameters) on combat state cs:
\* raised is TRUE when get_param raises ValueError for a missing parameter.
ExecuteTool(tool_name, parameters, cs) ==
    IF tool_name \in KnownTools /\ ~(RequiredParams(tool_name) \subseteq parameters)
        THEN [raised |-> TRUE, result |-> ErrorResult(tool_name), combat |-> cs]
    ELSE IF tool_name = "start_combat"
        THEN [raised |-> FALSE, result |-> ToolValue(tool_name), combat |-> CombatStarted]
    ELSE IF tool_name = "end_combat"
        THEN [raised |-> FALSE, result |-> ToolValue(tool_name), combat |-> CombatEnded]
    ELSE IF tool_name \in KnownTools
        THEN [raised |-> FALSE, result |-> ToolValue(tool_name), combat |-> cs]
    ELSE [raised |-> FALSE, result |-> UnknownToolResult(tool_name), combat |-> cs]

\* One pass of the loop of process_player_input over response.tool_calls:
\* the try/except around _execute_tool appends one entry per call.
ToolEntry(tool_call, cs) ==
    LET r == ExecuteTool(tool_call.name, tool_call.parameters, cs)
    IN  [tool |-> tool_call.name,
         parameters |-> tool_call.parameters,
         result |-> IF r.raised THEN ErrorResult(tool_call.name) ELSE r.result]

RECURSIVE RunToolsAbort(_, _, _, _)
\* RunTools giving up at the first tool that raises: the calls after it are
\* answered with the error and are not executed.
RunToolsAbort(tool_calls, cs, entries, ids) ==
    IF tool_calls = <<>>
        THEN [tool_results |-> entries, executed |-> ids, combat |-> cs]
    ELSE LET tc == Head(tool_calls)
             r == ExecuteTool(tc.name, tc.parameters, cs)
         IN  IF r.raised
                 THEN [tool_results |->
                           entries \o [i \in 1..Len(tool_calls) |->
                                          [tool |-> tool_calls[i].name,
                                           parameters |-> tool_calls[i].parameters,
                                           result |-> ErrorResult(tool_calls[i].name)]],
                       executed |-> Append(ids, tc.id),
                       combat |-> cs]
             ELSE RunToolsAbort(Tail(tool_calls), r.combat,
                                Append(entries, ToolEntry(tc, cs)),
                                Append(ids, tc.id))

RECURSIVE RunTools(_, _, _, _)
\* The whole loop: the entries appended, the ids executed in order, and the
\* combat state the tools leave.
RunTools(tool_calls, cs, entries, ids) ==
    IF tool_calls = <<>>
        THEN [tool_results |-> entries, executed |-> ids, combat |-> cs]
    ELSE LET tc == Head(tool_calls)
         IN  RunTools(Tail(tool_calls),
                      ExecuteTool(tc.name, tc.parameters, cs).combat,
                      Append(entries, ToolEntry(tc, cs)),
                      Append(ids, tc.id))

\* --------------------------------------------------------- backend adapters
Backends == {"AnthropicClient", "OpenAIClient", "OllamaClient"}

\* AnthropicClient.create_message: token_limits
TokenLimits ==
    [scene_description |-> 500, combat_action |-> 150, npc_dialogue |-> 250,
     skill_check |-> 150, exploration |-> 350, standard |-> 200]

\* DMAgent.process_player_input: final_token_limits
FinalTokenLimits ==
    [scene_description |-> 600, combat_action |-> 200, npc_dialogue |-> 350,
     skill_check |-> 200, exploration |-> 450, standard |-> 300]

\* The output-length limit a backend puts on the wire for a call made with
\* max_tokens and (Anthropic only) context_type; "none" is no context_type.
AppliedLimit(client, max_tokens, context_type) ==
    IF client = "AnthropicClient"
        THEN IF context_type # "none"
                THEN IF context_type \in DOMAIN TokenLimits
                        THEN TokenLimits[context_type] ELSE max_tokens
                ELSE max_tokens
    ELSE IF client = "OllamaClient" THEN Min2(max_tokens, 200)
    ELSE max_tokens

\* OllamaClient._extract_tool_calls: the id given to the i-th extracted call
\* is f"ollama_{len(tool_calls)}", the same ids in every response.
OllamaId(i) == <<0, i - 1>>

\* What the provider sends back for one call: a failure (unreachable,
\* timeout, error status), or the text, the tool calls and the stop reason.
\* For Ollama, text is the reply outside its JSON blocks and calls are the
\* JSON blocks bearing a "tool" key.  The adapter turns it into an
\* AIResponse or raises.
NoResponse == [text |-> <<>>, tool_calls |-> <<>>, finish_reason |-> "none"]

FinishReason(tool_calls, stop) ==
    IF tool_calls # <<>> THEN "tool_calls"
    ELSE IF stop = "length" THEN "length"
    ELSE "stop"

\* OllamaClient.create_message, from the HTTP reply on
OllamaCreateMessage(raw) ==
    IF raw.status # "ok" THEN [raised |-> TRUE, response |-> NoResponse]
    ELSE IF raw.text = <<>> /\ raw.calls = <<>>
        THEN [raised |-> TRUE, response |-> NoResponse]
    ELSE LET tool_calls == [i \in 1..Len(raw.calls) |->
                               [id |-> OllamaId(i), name |-> raw.calls[i].name,
                                parameters |-> raw.calls[i].parameters]]
             text == IF raw.calls # <<>> THEN Strip(raw.text) ELSE raw.text
         IN  [raised |-> FALSE,
              response |-> [text |-> text, tool_calls |-> tool_calls,
                            finish_reason |-> FinishReason(tool_calls, raw.stop)]]

\* AnthropicClient.create_message and OpenAIClient.create_message, from the
\* SDK's reply on: the SDK raises on a failure; nothing tests the text.
NativeCreateMessage(raw) ==
    IF raw.status # "ok" THEN [raised |-> TRUE, response |-> NoResponse]
    ELSE [raised |-> FALSE,
          response |-> [text |-> raw.text, tool_calls |-> raw.calls,
                        finish_reason |-> FinishReason(raw.calls, raw.stop)]]

CreateMessage(client, raw) ==
    IF client = "OllamaClient" THEN OllamaCreateMessage(raw)
    ELSE NativeCreateMessage(raw)

\* ------------------------------------------------------------- messages
\* Message(role, content).  content is a text, or a list of structured
\* blocks (Anthropic), or one of the two texts the orchestrator formats for
\* the other backends, kept as what the text is formatted from:
\*   "used_tools"    f"[Used tools: {', '.join(names)}]"
\*   "tool_results"  "Tool results:\n" + one "- {tool}: {json}" line per entry
NoId == <<>>
NoValue == [error |-> FALSE, success_false |-> FALSE, of |-> "none"]

TextMessage(role, text) ==
    [role |-> role, kind |-> "text", text |-> text, blocks |-> <<>>,
     names |-> <<>>, entries |-> <<>>]

BlocksMessage(role, blocks) ==
    [role |-> role, kind |-> "blocks", text |-> <<>>, blocks |-> blocks,
     names |-> <<>>, entries |-> <<>>]

UsedToolsMessage(tool_calls) ==
    [role |-> "assistant", kind |-> "used_tools", text |-> <<>>, blocks |-> <<>>,
     names |-> [i \in 1..Len(tool_calls) |-> tool_calls[i].name],
     entries |-> <<>>]

ToolResultsTextMessage(results) ==
    [role |-> "user", kind |-> "tool_results", text |-> <<>>, blocks |-> <<>>,
     names |-> <<>>,
     entries |-> [i \in 1..Len(results) |->
                     [tool |-> results[i].tool, result |-> results[i].result]]]

TextBlock(text) ==
    [type |-> "text", id |-> NoId, name |-> "none", input |-> {},
     text |-> text, content |-> NoValue]

ToolUseBlock(tool_call) ==
    [type |-> "tool_use", id |-> tool_call.id, name |-> tool_call.name,
     input |-> tool_call.parameters, text |-> <<>>, content |-> NoValue]

\* ToolResultBlock without the tool_use_id of the call it answers
ToolResultBlockUnlinked(tool_call, entry) ==
    [type |-> "tool_result", id |-> NoId, name |-> "none", input |-> {},
     text |-> <<>>, content |-> entry.result]

\* content is json.dumps(result): the result itself
ToolResultBlock(tool_call, entry) ==
    [type |-> "tool_result", id |-> tool_call.id, name |-> "none", input |-> {},
     text |-> <<>>, content |-> entry.result]

\* The two messages appended after the tools have run.  The Anthropic
\* branch's except-fallback is not taken: every tool result is a dict of
\* JSON values and json.dumps does not raise on it.
ToolMessages(client, response, results) ==
    IF client = "AnthropicClient"
        THEN LET uses == [i \in 1..Len(response.tool_calls) |->
                             ToolUseBlock(response.tool_calls[i])]
                 assistant_content ==
                     IF response.text # <<>>
                         THEN <<TextBlock(response.text)>> \o uses ELSE uses
                 tool_result_content ==
                     [i \in 1..Len(response.tool_calls) |->
                         ToolResultBlock(response.tool_calls[i], results[i])]
             IN  <<BlocksMessage("assistant", assistant_content),
                   BlocksMessage("user", tool_result_content)>>
    ELSE <<UsedToolsMessage(response.tool_calls), ToolResultsTextMessage(results)>>

\* A message whose content is empty: "" or an empty block list.
EmptyContent(m) ==
    \/ m.kind = "text" /\ m.text = <<>>
    \/ m.kind = "blocks" /\ m.blocks = <<>>

\* ------------------------------------------------------ truncation repair
SentenceEnd == {".", "!", "?"}
ClosingChars == {".", "!", "?", "\"", "'"}

\* RepairTruncation without the test for a closing '?': it always asks.
RepairAlwaysAsks(text) ==
    LET stripped == RStrip(text)
        last_punct == Max({RFind(stripped, "."), RFind(stripped, "!"),
                           RFind(stripped, "?")})
        trimmed == IF ~EndsWith(stripped, ClosingChars) /\ last_punct > 0
                       THEN Slice(stripped, last_punct + 1)
                       ELSE stripped
    IN  trimmed \o Question

\* RepairTruncation with endswith(('.', '!', '?')) only: a text that ends in
\* a closing quote is cut back too.
RepairIgnoresQuotes(text) ==
    LET stripped == RStrip(text)
        last_punct == Max({RFind(stripped, "."), RFind(stripped, "!"),
                           RFind(stripped, "?")})
        trimmed == IF ~EndsWith(stripped, SentenceEnd) /\ last_punct > 0
                       THEN Slice(stripped, last_punct + 1)
                       ELSE stripped
    IN  IF ~EndsWith(Strip(trimmed), {"?"}) THEN trimmed \o Question ELSE trimmed

\* The body of `if narrative:` under `finish_reason == "length"`
\* (the same code in both branches of process_player_input).
RepairTruncation(text) ==
    LET stripped == RStrip(text)
        last_punct == Max({RFind(stripped, "."), RFind(stripped, "!"),
                           RFind(stripped, "?")})
        trimmed == IF ~EndsWith(stripped, ClosingChars) /\ last_punct > 0
                       THEN Slice(stripped, last_punct + 1)
                       ELSE stripped
    IN  IF ~EndsWith(Strip(trimmed), {"?"}) THEN trimmed \o Question ELSE trimmed

\* The narrative made of the narrating response
NarrativeOf(response) ==
    IF response.finish_reason = "length"
        THEN IF response.text # <<>> THEN RepairTruncation(response.text)
             ELSE Fallback
    ELSE response.text

\* --------------------------------------------------------------- the log
\* lst[-n:] for n >= 0 (lst[-0:] is the whole list)
LastN(lst, n) ==
    IF n = 0 \/ n >= Len(lst) THEN lst
    ELSE SubSeq(lst, Len(lst) - n + 1, Len(lst))

\* _trim_conversation_history with history[:max_messages]: keeps the oldest
TrimKeepsOldest(history, max_messages) ==
    IF Len(history) <= max_messages THEN history
    ELSE SubSeq(history, 1, max_messages)

\* DMAgent._trim_conversation_history(max_messages)
TrimConversationHistory(history, max_messages) ==
    IF Len(history) <= max_messages THEN history
    ELSE LastN(history, max_messages)

\* DMAgent.restore_conversation_history(messages): archived messages are
\* dicts of a role and a text content.
Restorable(m) ==
    /\ m.role \in {"user", "assistant", "system"}
    /\ ~(m.content = <<>> \/ Strip(m.content) = <<>>)

RECURSIVE RestoreMessages(_)
RestoreMessages(messages) ==
    IF messages = <<>> THEN <<>>
    ELSE IF Restorable(Head(messages))
        THEN <<TextMessage(Head(messages).role, Head(messages).content)>>
             \o RestoreMessages(Tail(messages))
    ELSE RestoreMessages(Tail(messages))

\* ============================================================ adventure
\* Identifiers (chapter, location, NPC, objective and encounter ids) are
\* texts, so that startswith, isdigit, lower and the substring tests of the
\* code are computed on them.
\* The texts of leveling_system.py, one character per element: milestone
\* chapters and objectives, the keywords of the objective inference, and
\* the ids it looks for or is given.
Txt ==
    [part1_goblin_arrows |->
         <<"p", "a", "r", "t", "1", "_", "g", "o", "b", "l", "i", "n", "_", "a", "r", "r", "o", "w", "s">>,
     part2_phandalin |->
         <<"p", "a", "r", "t", "2", "_", "p", "h", "a", "n", "d", "a", "l", "i", "n">>,
     part3_spiders_web |->
         <<"p", "a", "r", "t", "3", "_", "s", "p", "i", "d", "e", "r", "s", "_", "w", "e", "b">>,
     part4_wave_echo_cave |->
         <<"p", "a", "r", "t", "4", "_", "w", "a", "v", "e", "_", "e", "c", "h", "o", "_", "c", "a", "v", "e">>,
     clear_hideout |->
         <<"c", "l", "e", "a", "r", "_", "h", "i", "d", "e", "o", "u", "t">>,
     rescue_sildar |->
         <<"r", "e", "s", "c", "u", "e", "_", "s", "i", "l", "d", "a", "r">>,
     clear_redbrands |->
         <<"c", "l", "e", "a", "r", "_", "r", "e", "d", "b", "r", "a", "n", "d", "s">>,
     find_cragmaw_castle |->
         <<"f", "i", "n", "d", "_", "c", "r", "a", "g", "m", "a", "w", "_", "c", "a", "s", "t", "l", "e">>,
     rescue_gundren |->
         <<"r", "e", "s", "c", "u", "e", "_", "g", "u", "n", "d", "r", "e", "n">>,
     defeat_black_spider |->
         <<"d", "e", "f", "e", "a", "t", "_", "b", "l", "a", "c", "k", "_", "s", "p", "i", "d", "e", "r">>,
     find_forge |->
         <<"f", "i", "n", "d", "_", "f", "o", "r", "g", "e">>,
     hideout |->
         <<"h", "i", "d", "e", "o", "u", "t">>,
     clear |->
         <<"c", "l", "e", "a", "r">>,
     cragmaw |->
         <<"c", "r", "a", "g", "m", "a", "w">>,
     redbrand |->
         <<"r", "e", "d", "b", "r", "a", "n", "d">>,
     black_spider |->
         <<"b", "l", "a", "c", "k", "_", "s", "p", "i", "d", "e", "r">>,
     nezznar |->
         <<"n", "e", "z", "z", "n", "a", "r">>,
     defeat |->
         <<"d", "e", "f", "e", "a", "t">>,
     find |->
         <<"f", "i", "n", "d">>,
     castle |->
         <<"c", "a", "s", "t", "l", "e">>,
     cragmaw_castle |->
         <<"c", "r", "a", "g", "m", "a", "w", "_", "c", "a", "s", "t", "l", "e">>,
     forge |->
         <<"f", "o", "r", "g", "e">>,
     rescue |->
         <<"r", "e", "s", "c", "u", "e">>,
     sildar |->
         <<"s", "i", "l", "d", "a", "r">>,
     gundren |->
         <<"g", "u", "n", "d", "r", "e", "n">>,
     part1 |->
         <<"p", "a", "r", "t", "1">>,
     cragmaw_hideout |->
         <<"c", "r", "a", "g", "m", "a", "w", "_", "h", "i", "d", "e", "o", "u", "t">>,
     redbrand_hideout |->
         <<"r", "e", "d", "b", "r", "a", "n", "d", "_", "h", "i", "d", "e", "o", "u", "t">>,
     sildar_hallwinter |->
         <<"s", "i", "l", "d", "a", "r", "_", "h", "a", "l", "l", "w", "i", "n", "t", "e", "r">>,
     gundren_rockseeker |->
         <<"g", "u", "n", "d", "r", "e", "n", "_", "r", "o", "c", "k", "s", "e", "e", "k", "e", "r">>,
     encounter_1 |->
         <<"e", "n", "c", "o", "u", "n", "t", "e", "r", "_", "1">>,
     forge_found |->
         <<"f", "o", "r", "g", "e", "_", "f", "o", "u", "n", "d">>,
     Nezznar |->
         <<"N", "e", "z", "z", "n", "a", "r">>]

\* The texts of state_manager.py: prefixes, knowledge keywords, milestone
\* and interaction names, and values of its arguments.
Str ==
    [ch02 |->
         <<"c", "h", "0", "2">>,
     intro |->
         <<"i", "n", "t", "r", "o">>,
     part |->
         <<"p", "a", "r", "t">>,
     ch |->
         <<"c", "h">>,
     wave_echo |->
         <<"w", "a", "v", "e", "_", "e", "c", "h", "o">>,
     location |->
         <<"l", "o", "c", "a", "t", "i", "o", "n">>,
     knows_about |->
         <<"k", "n", "o", "w", "s", "_", "a", "b", "o", "u", "t">>,
     discovered |->
         <<"d", "i", "s", "c", "o", "v", "e", "r", "e", "d", "_">>,
     met_npc |->
         <<"m", "e", "t", "_", "n", "p", "c">>,
     quest_completed |->
         <<"q", "u", "e", "s", "t", "_", "c", "o", "m", "p", "l", "e", "t", "e", "d">>,
     rumor |->
         <<"r", "u", "m", "o", "r">>]
\* str.isdigit() on one ASCII character
IsDigit(c) == c \in {"0", "1", "2", "3", "4", "5", "6", "7", "8", "9"}

RECURSIVE ToInt(_)
\* int(num_str) for a non-empty text of digits
ToInt(num_str) ==
    LET digits == <<"0", "1", "2", "3", "4", "5", "6", "7", "8", "9">>
        value(c) == (CHOOSE d \in 1..10 : digits[d] = c) - 1
    IN  IF num_str = <<>> THEN 0
        ELSE 10 * ToInt(SubSeq(num_str, 1, Len(num_str) - 1))
                 + value(num_str[Len(num_str)])

RECURSIVE LeadingDigits(_)
\* the loop over `remaining` that stops at the first character not a digit
LeadingDigits(s) ==
    IF s = <<>> \/ ~IsDigit(Head(s)) THEN <<>>
    ELSE <<Head(s)>> \o LeadingDigits(Tail(s))

\* _extract_part_number's None
NoPart == -1

\* StateManager._extract_part_number(chapter_id)
ExtractPartNumber(chapter_id) ==
    LET startswith(prefix) ==
            /\ Len(chapter_id) >= Len(prefix)
            /\ SubSeq(chapter_id, 1, Len(prefix)) = prefix
        \* chapter_id[n:]
        from(n) == SubSeq(chapter_id, n + 1, Len(chapter_id))
        \* "".join(c for c in chapter_id[2:] if c.isdigit())
        all_digits == SelectSeq(from(2), IsDigit)
    IN  IF startswith(Str.part) /\ LeadingDigits(from(4)) # <<>>
            THEN ToInt(LeadingDigits(from(4)))
        ELSE IF startswith(Str.ch) /\ all_digits # <<>>
            THEN ToInt(all_digits)
        ELSE NoPart

\* `x in lst`
In(x, lst) == \E i \in 1..Len(lst) : lst[i] = x

\* ------------------------------------------------------ adventure.json
\* A key that is absent: no party level, no session number, no timestamp.
Absent == -1
NoTime == 0

\* The adventure document: an adventure.json with no state recorded yet.
\* A text that is "" or absent is <<>>.
EmptyDocument ==
    [chapter |-> <<>>, location |-> <<>>, party_level |-> Absent,
     session_number |-> Absent, discovered_locations |-> <<>>,
     important_events |-> <<>>, met_npcs |-> <<>>, active_quests |-> <<>>,
     party_knowledge |-> <<>>, combat_encounters |-> <<>>,
     exploration_milestones |-> <<>>, social_interactions |-> <<>>,
     last_level_up |-> [checked_at |-> NoTime, level |-> Absent,
                        leveled_up |-> FALSE, new_level |-> Absent,
                        leveled_at |-> NoTime]]

\* The adventure's state after an operation: the document in memory and the
\* one on disk.
Adventure(md, sv) == [metadata |-> md, saved |-> sv]

\* AdventureContext.save_metadata(): json.dump(self.metadata) replaces the
\* file's document by the one in memory, whose values are all strings,
\* numbers, booleans, lists and dicts keyed by strings.
SaveMetadata(adv) == Adventure(adv.metadata, adv.metadata)

\* ------------------------------------------------- adventure state updates
\* location_manager.load_chapter(chapter_id) when no chapter file matches:
\* {}.  Of a chapter file update_chapter reads key_locations.
NoChapterData == [found |-> FALSE, key_locations |-> <<>>]

\* dict[key] = value
DictSet(dict, key, value) ==
    [k \in (DOMAIN dict) \cup {key} |-> IF k = key THEN value ELSE dict[k]]

\* LevelingSystem.track_combat_encounter(encounter_id, xp_value).  The test
\* `encounter_id not in combat_encounters` compares a str with the dicts of
\* the list and is true for every list.
TrackCombatEncounter(adv, encounter_id, xp_value, now) ==
    LET entry == [id |-> encounter_id, xp |-> xp_value, completed_at |-> now]
        recorded == FALSE
    IN  IF recorded THEN adv
        ELSE SaveMetadata(Adventure(
                 [adv.metadata EXCEPT !.combat_encounters = Append(@, entry)],
                 adv.saved))

\* LevelingSystem.track_exploration(milestone, location_id)
TrackExploration(adv, milestone, location_id, now) ==
    LET milestone_entry == [milestone |-> milestone, completed_at |-> now,
                            location |-> location_id]
    IN  IF In(milestone_entry, adv.metadata.exploration_milestones) THEN adv
        ELSE SaveMetadata(Adventure(
                 [adv.metadata EXCEPT
                      !.exploration_milestones = Append(@, milestone_entry)],
                 adv.saved))

\* LevelingSystem.track_social_interaction(interaction_type, npc_id, quest_id)
TrackSocialInteraction(adv, interaction_type, npc_id, quest_id, now) ==
    LET interaction_entry == [type |-> interaction_type, completed_at |-> now,
                              npc |-> npc_id, quest |-> quest_id]
    IN  IF In(interaction_entry, adv.metadata.social_interactions) THEN adv
        ELSE SaveMetadata(Adventure(
                 [adv.metadata EXCEPT
                      !.social_interactions = Append(@, interaction_entry)],
                 adv.saved))

\* The test update_chapter makes before its `pass`: both chapters carry a
\* part number, the new one is more than one ahead, its chapter file exists
\* and the party has neither discovered one of its key locations nor holds
\* a relevant knowledge flag.
SkipsWithoutPrerequisite(md, new_chapter, chapter_data) ==
    LET current_part == ExtractPartNumber(md.chapter)
        new_part == ExtractPartNumber(new_chapter)
        has_discovered_location ==
            \E i \in 1..Len(chapter_data.key_locations) :
                In(chapter_data.key_locations[i], md.discovered_locations)
        has_relevant_knowledge ==
            \E key \in DOMAIN md.party_knowledge :
                /\ md.party_knowledge[key]
                /\ \/ Contains(Str.wave_echo, key)
                   \/ Contains(Txt.cragmaw_castle, key)
                   \/ Contains(Str.location, key)
                   \/ Contains(Str.knows_about, key)
    IN  /\ md.chapter # <<>> /\ new_chapter # <<>>
        /\ current_part # NoPart /\ new_part # NoPart
        /\ new_part > current_part + 1
        /\ chapter_data.found
        /\ ~(has_discovered_location \/ has_relevant_knowledge)

\* important_events[-20:]
KeptEvents == 20

\* The first quest of the list with this id, 0 when there is none
FirstQuest(quests, quest_id) ==
    LET at == {i \in 1..Len(quests) : quests[i].id = quest_id}
    IN  IF at = {} THEN 0 ELSE CHOOSE i \in at : \A j \in at : i <= j

\* update_party_level that writes the file and leaves the level as it was
UpdatePartyLevelKeeps(adv, level) ==
    SaveMetadata(adv)

\* StateManager.update_party_level(level)
UpdatePartyLevel(adv, level) ==
    SaveMetadata(Adventure(
        [adv.metadata EXCEPT !.party_level = level], adv.saved))

\* ---------------------------------------------------------- leveling system
\* LevelingSystem.LEVEL_MILESTONES
LEVEL_MILESTONES ==
    [L \in 1..4 |->
        CASE L = 1 -> [chapter |-> Txt.part1_goblin_arrows,
                       required |-> <<Txt.clear_hideout, Txt.rescue_sildar>>]
          [] L = 2 -> [chapter |-> Txt.part2_phandalin,
                       required |-> <<Txt.clear_redbrands>>]
          [] L = 3 -> [chapter |-> Txt.part3_spiders_web,
                       required |-> <<Txt.find_cragmaw_castle,
                                      Txt.rescue_gundren>>]
          [] L = 4 -> [chapter |-> Txt.part4_wave_echo_cave,
                       required |-> <<Txt.defeat_black_spider,
                                      Txt.find_forge>>]]

\* `if current_level >= 5`
LevelCap == 5

\* any(word in str(e.get(field, "")).lower() for e in entries), the field
\* values being given
AnyContains(word, values) ==
    \E i \in 1..Len(values) : Contains(word, Lower(values[i]))

\* e.get(field, "") for e in entries
FieldValues(entries, field) == [i \in 1..Len(entries) |-> entries[i][field]]

\* The objectives one pass of the loop over required_objectives appends for
\* obj: the four blocks in their order.
ObjectiveAppends(md, obj) ==
    LET obj_lower == Lower(obj)
        once == <<obj>>
        combat ==
            IF Contains(Txt.hideout, obj_lower) \/ Contains(Txt.clear, obj_lower)
            THEN IF Contains(Txt.cragmaw, obj_lower)
                        /\ (In(Txt.cragmaw_hideout, md.discovered_locations)
                            \/ Len(md.combat_encounters) > 0)
                     THEN once
                 ELSE IF Contains(Txt.redbrand, obj_lower)
                        /\ (In(Txt.redbrand_hideout, md.discovered_locations)
                            \/ AnyContains(Txt.redbrand, FieldValues(md.combat_encounters, "id")))
                     THEN once
                 ELSE <<>>
            ELSE <<>>
        boss ==
            IF (Contains(Txt.black_spider, obj_lower)
                    \/ Contains(Txt.nezznar, obj_lower)
                    \/ Contains(Txt.defeat, obj_lower))
                 /\ (AnyContains(Txt.black_spider, FieldValues(md.combat_encounters, "id"))
                     \/ AnyContains(Txt.nezznar, FieldValues(md.combat_encounters, "id")))
            THEN once ELSE <<>>
        discovery ==
            IF Contains(Txt.find, obj_lower) \/ Contains(Txt.castle, obj_lower)
            THEN IF Contains(Txt.cragmaw_castle, obj_lower)
                        /\ In(Txt.cragmaw_castle, md.discovered_locations)
                     THEN once
                 ELSE IF Contains(Txt.forge, obj_lower)
                        /\ AnyContains(Txt.forge, FieldValues(md.exploration_milestones, "milestone"))
                     THEN once
                 ELSE <<>>
            ELSE <<>>
        rescue ==
            IF Contains(Txt.rescue, obj_lower)
            THEN IF Contains(Txt.sildar, obj_lower)
                        /\ (In(Txt.sildar_hallwinter, md.met_npcs)
                            \/ AnyContains(Txt.sildar, FieldValues(md.social_interactions, "npc")))
                     THEN once
                 ELSE IF Contains(Txt.gundren, obj_lower)
                        /\ (In(Txt.gundren_rockseeker, md.met_npcs)
                            \/ AnyContains(Txt.gundren, FieldValues(md.social_interactions, "npc")))
                     THEN once
                 ELSE <<>>
            ELSE <<>>
    IN  combat \o boss \o discovery \o rescue

RECURSIVE CompletedObjectives(_, _)
\* completed_objectives after the loop over required_objectives
CompletedObjectives(md, required_objectives) ==
    IF required_objectives = <<>> THEN <<>>
    ELSE ObjectiveAppends(md, Head(required_objectives))
             \o CompletedObjectives(md, Tail(required_objectives))

\* The completed_at of every progression record
CompletedAts(md) ==
    {md.combat_encounters[i].completed_at :
         i \in 1..Len(md.combat_encounters)}
    \cup {md.exploration_milestones[i].completed_at :
              i \in 1..Len(md.exploration_milestones)}
    \cup {md.social_interactions[i].completed_at :
              i \in 1..Len(md.social_interactions)}

\* recent_activity that takes any record, checked before or not
RecentActivityAnyRecord(md) == CompletedAts(md) # {}

\* check_level_up_eligibility's recent_activity
RecentActivity(md) ==
    IF md.last_level_up.checked_at # NoTime
        THEN \E t \in CompletedAts(md) : t > md.last_level_up.checked_at
    ELSE \/ Len(md.combat_encounters) > 0
         \/ Len(md.exploration_milestones) > 0
         \/ Len(md.social_interactions) > 0

\* check_level_up_eligibility's chapter_match
ChapterMatch(md, milestone) ==
    \/ Contains(milestone.chapter, md.chapter)
    \/ Contains(md.chapter, milestone.chapter)

\* check_level_up_eligibility's objectives_met
ObjectivesMet(md, current_level, milestone) ==
    LET completed_objectives == CompletedObjectives(md, milestone.required)
    IN  IF current_level < 2
            THEN Len(completed_objectives) > 0 \/ Len(md.combat_encounters) > 0
        ELSE 10 * Len(completed_objectives)
                 >= Max({10, 6 * Len(milestone.required)})

\* check_level_up_eligibility's chapter_progress
ChapterProgress(md, current_level, milestone) ==
    IF current_level < 2
        THEN ChapterMatch(md, milestone) \/ Contains(Txt.part1, Lower(md.chapter))
    ELSE ChapterMatch(md, milestone)

Ineligible(current_level) ==
    [eligible |-> FALSE, new_level |-> current_level]

\* check_level_up_eligibility without the level cap
CheckLevelUpUncapped(md, current_level) ==
    IF current_level \notin DOMAIN LEVEL_MILESTONES
        THEN [eligible |-> RecentActivity(md),
              new_level |-> IF RecentActivity(md) THEN current_level + 1
                            ELSE current_level]
    ELSE LET milestone == LEVEL_MILESTONES[current_level]
             eligible == /\ \/ ObjectivesMet(md, current_level, milestone)
                            \/ ChapterProgress(md, current_level, milestone)
                         /\ RecentActivity(md)
         IN  [eligible |-> eligible,
              new_level |-> IF eligible THEN current_level + 1
                            ELSE current_level]

\* LevelingSystem.check_level_up_eligibility(current_level): eligible and
\* new_level of the result
CheckLevelUpEligibility(md, current_level) ==
    IF current_level >= LevelCap THEN Ineligible(current_level)
    ELSE IF current_level \notin DOMAIN LEVEL_MILESTONES
        THEN Ineligible(current_level)
    ELSE LET milestone == LEVEL_MILESTONES[current_level]
             eligible == /\ \/ ObjectivesMet(md, current_level, milestone)
                            \/ ChapterProgress(md, current_level, milestone)
                         /\ RecentActivity(md)
         IN  [eligible |-> eligible,
              new_level |-> IF eligible THEN current_level + 1
                            ELSE current_level]

\* process_long_rest that stamps the check only when the party levels up
ProcessLongRestStampsLevelUps(adv, current_level, now, later) ==
    LET check_result == CheckLevelUpEligibility(adv.metadata, current_level)
    IN  IF check_result.eligible
            THEN [level_up |-> TRUE, new_level |-> check_result.new_level,
                  adv |-> UpdatePartyLevel(
                      Adventure([adv.metadata EXCEPT
                                     !.last_level_up =
                                         [checked_at |-> now,
                                          level |-> current_level,
                                          leveled_up |-> TRUE,
                                          new_level |-> check_result.new_level,
                                          leveled_at |-> later]],
                                adv.saved),
                      check_result.new_level)]
        ELSE [level_up |-> FALSE, new_level |-> current_level, adv |-> adv]

\* LevelingSystem.process_long_rest(current_level); now and later are the
\* two readings of the clock
ProcessLongRest(adv, current_level, now, later) ==
    LET check_result == CheckLevelUpEligibility(adv.metadata, current_level)
        stamped == SaveMetadata(Adventure(
                       [adv.metadata EXCEPT
                            !.last_level_up.checked_at = now,
                            !.last_level_up.level = current_level],
                       adv.saved))
    IN  IF check_result.eligible
            THEN [level_up |-> TRUE, new_level |-> check_result.new_level,
                  adv |-> UpdatePartyLevel(
                      Adventure([stamped.metadata EXCEPT
                                     !.last_level_up.leveled_up = TRUE,
                                     !.last_level_up.new_level =
                                         check_result.new_level,
                                     !.last_level_up.leveled_at = later],
                                stamped.saved),
                      check_result.new_level)]
        ELSE [level_up |-> FALSE, new_level |-> current_level,
              adv |-> stamped]

\* current_state.get("party_level", 1), the level every caller of
\* process_long_rest and check_level_up_eligibility passes
CurrentLevel(md) == IF md.party_level = Absent THEN 1 ELSE md.party_level

\* ------------------------------------------------------------------ state
VARIABLES
    backend,                \* type(self.ai_client).__name__
    conversation_history,   \* DMAgent.conversation_history
    combat_state,           \* GameEngine.combat_state
    pc,                     \* where the turn in progress is suspended
    turns,                  \* turns started so far
    player_message,         \* the turn's player_message
    context_type,           \* the turn's context_type
    response,               \* the turn's first AIResponse
    final_response,         \* the turn's final AIResponse
    tool_results,           \* the turn's tool_results
    executed,               \* ids of the tool calls executed in the turn, in order
    model_calls,            \* the create_message calls of the turn, in order
    result,                 \* what the turn returns: pending while it awaits
                            \* the audio, then what its caller was given
    probe,                  \* a helper called on its own: arguments and outcome
    voice,                  \* the turn's voice argument
    tts_calls,              \* the narratives tts_service.generate was called with
    parked,                 \* the locals of the other request on this orchestrator
    metadata,               \* AdventureContext.metadata
    saved,                  \* the adventure.json document on disk
    clock                   \* the last reading of datetime.now()

vars ==
    <<backend, conversation_history, combat_state, pc, turns, player_message,
      context_type, response, final_response, tool_results, executed,
      model_calls, result, probe, voice, tts_calls, parked, metadata, saved,
      clock>>

\* The adventure's state
adv_vars == <<metadata, saved, clock>>

\* What the orchestrator's turns leave alone unless they say otherwise
side_vars == <<tts_calls, parked, adv_vars>>

turn_vars ==
    <<player_message, context_type, response, final_response, tool_results,
      executed, voice>>

NoResult ==
    [status |-> "none", narrative |-> <<>>, tool_results |-> <<>>,
     audio_url |-> "None"]
Failure ==
    [status |-> "failed", narrative |-> <<>>, tool_results |-> <<>>,
     audio_url |-> "None"]
NoProbe == [op |-> "none"]

\* ----------------------------------------------------------------- inputs
MsgEmpty == <<>>
PlayerMessages == {MsgEmpty, MsgAttack, MsgHi}

TextDone == <<"O", "k", ".">>
TextCut == <<"H", "e", " ", "r", "u">>

\* Tool calls a model may ask for: with the required parameter, without it
\* (get_param raises), and a tool the orchestrator does not know.
RollDice == [name |-> "roll_dice", parameters |-> {"dice"}]
RollNoDice == [name |-> "roll_dice", parameters |-> {}]
Teleport == [name |-> "teleport", parameters |-> {}]

CallLists == UNION {[1..n -> {RollDice, RollNoDice}] : n \in 1..MaxCalls}

\* The calls of a reply with the provider's ids, unique in the conversation:
\* the turn and the call's number among the calls the model made in it.
WithIds(calls, turn, earlier) ==
    [i \in 1..Len(calls) |->
        [id |-> <<turn, earlier + i>>, name |-> calls[i].name,
         parameters |-> calls[i].parameters]]

Reply(text, calls, stop) ==
    [status |-> "ok", text |-> text, calls |-> calls, stop |-> stop]

FailedReply == [status |-> "error", text |-> <<>>, calls |-> <<>>, stop |-> "stop"]

NarrationReplies ==
    { Reply(<<>>, <<>>, "stop"), Reply(<<>>, <<>>, "length"),
      Reply(TextDone, <<>>, "stop"), Reply(TextCut, <<>>, "length") }

ToolReplies(turn) ==
    {Reply(<<>>, WithIds(c, turn, 0), "stop") : c \in CallLists}
        \cup { Reply(TextDone, WithIds(<<RollDice>>, turn, 0), "stop"),
               Reply(<<>>, WithIds(<<Teleport>>, turn, 0), "stop") }

\* A final reply that asks for a tool again
FinalToolReply(turn, earlier) ==
    Reply(TextDone, WithIds(<<RollDice>>, turn, earlier), "stop")

\* Archived logs handed to restore_conversation_history
Exchange == <<[role |-> "user", content |-> MsgHi],
              [role |-> "assistant", content |-> TextDone]>>

RECURSIVE Repeat(_, _)
Repeat(s, n) == IF n = 0 THEN <<>> ELSE s \o Repeat(s, n - 1)

Archives ==
    { <<[role |-> "user", content |-> MsgHi],
        [role |-> "assistant", content |-> <<>>],
        [role |-> "tool", content |-> TextDone],
        [role |-> "assistant", content |-> <<" ">>]>>,
      Repeat(Exchange, (MaxMessages \div 2) - 1) }

\* -------------------------------------------------------------- model calls
Call(phase, tools, max_tokens, ctx) ==
    [phase |-> phase, tools |-> tools, max_tokens |-> max_tokens,
     context_type |-> ctx, applied |-> AppliedLimit(backend, max_tokens, ctx),
     status |-> "in_flight"]

\* dm_agent.py:382-400
FirstCall(ctx) ==
    IF backend = "AnthropicClient" THEN Call(1, TRUE, 300, ctx)
    ELSE IF backend = "OllamaClient" THEN Call(1, FALSE, 150, "none")
    ELSE Call(1, TRUE, 300, "none")

\* FinalCall with the tool set passed again
FinalCallWithTools(ctx) ==
    IF backend = "AnthropicClient"
        THEN Call(2, TRUE,
                  IF ctx \in DOMAIN FinalTokenLimits THEN FinalTokenLimits[ctx] ELSE 300,
                  ctx)
    ELSE IF backend = "OllamaClient" THEN Call(2, FALSE, 150, "none")
    ELSE Call(2, TRUE, 300, "none")

\* dm_agent.py:496-527
FinalCall(ctx) ==
    IF backend = "AnthropicClient"
        THEN Call(2, FALSE,
                  IF ctx \in DOMAIN FinalTokenLimits THEN FinalTokenLimits[ctx] ELSE 300,
                  ctx)
    ELSE IF backend = "OllamaClient" THEN Call(2, FALSE, 150, "none")
    ELSE Call(2, FALSE, 300, "none")

\* The last call of the turn, answered or failed
Settle(calls, status) ==
    [calls EXCEPT ![Len(calls)] = [calls[Len(calls)] EXCEPT !.status = status]]

\* ------------------------------------------------------------------ actions
\* The locals of a request that has not started: the other request on the
\* orchestrator before it is sent.
IdleRequest ==
    [pc |-> "idle", turns |-> 0, player_message |-> <<>>,
     context_type |-> "standard", response |-> NoResponse,
     final_response |-> NoResponse, tool_results |-> <<>>, executed |-> <<>>,
     model_calls |-> <<>>, result |-> NoResult, voice |-> FALSE]

Init ==
    /\ backend \in Backends
    /\ conversation_history = <<>>
    /\ combat_state = CombatIdle
    /\ pc = "idle"
    /\ turns = 0
    /\ player_message = <<>>
    /\ context_type = "standard"
    /\ response = NoResponse
    /\ final_response = NoResponse
    /\ tool_results = <<>>
    /\ executed = <<>>
    /\ model_calls = <<>>
    /\ result = NoResult
    /\ probe = NoProbe
    /\ voice = FALSE
    /\ tts_calls = <<>>
    /\ parked = IdleRequest
    /\ metadata = EmptyDocument
    /\ saved = EmptyDocument
    /\ clock = 0

\* process_player_input(player_message, voice) up to its first await
\* (dm_agent.py:349-400)
StartTurnWith(msg, v) ==
    /\ pc = "idle"
    /\ turns < MaxTurns
    /\ turns' = turns + 1
    /\ conversation_history' =
           Append(conversation_history, TextMessage("user", msg))
    /\ player_message' = msg
    /\ voice' = v
    /\ context_type' = DetectContext(msg, GetState(combat_state))
    /\ model_calls' = <<FirstCall(context_type')>>
    /\ response' = NoResponse
    /\ final_response' = NoResponse
    /\ tool_results' = <<>>
    /\ executed' = <<>>
    /\ result' = NoResult
    /\ pc' = "awaiting_model"
    /\ UNCHANGED <<backend, combat_state, probe, side_vars>>

\* A request that does not ask for voice (PlayerAction.voice defaults to False)
StartTurn(msg) == StartTurnWith(msg, FALSE)

\* CallRaises with a retry: the failed call is issued again and the turn goes on.
CallRaisesAndRetries(raw) ==
    /\ pc \in {"awaiting_model", "awaiting_final"}
    /\ CreateMessage(backend, raw).raised
    /\ Len(model_calls) < 4
    /\ model_calls' = Append(Settle(model_calls, "raised"),
                             model_calls[Len(model_calls)])
    /\ UNCHANGED <<backend, conversation_history, combat_state, pc, turns,
                   turn_vars, result, probe, side_vars>>

\* A create_message that raises: the exception leaves process_player_input
\* (player_action turns it into an HTTP 500).
CallRaises(raw) ==
    /\ pc \in {"awaiting_model", "awaiting_final"}
    /\ CreateMessage(backend, raw).raised
    /\ model_calls' = Settle(model_calls, "raised")
    /\ result' = Failure
    /\ pc' = "idle"
    /\ UNCHANGED <<backend, conversation_history, combat_state, turns,
                   turn_vars, probe, side_vars>>

\* Complete calling the audio collaborator whatever the voice argument is
CompleteAlwaysSpeaks(narrative, results) ==
    /\ conversation_history' =
           TrimConversationHistory(
               Append(conversation_history, TextMessage("assistant", narrative)),
               MaxMessages)
    /\ tts_calls' = Append(tts_calls, narrative)
    /\ result' = [status |-> "pending", narrative |-> narrative,
                  tool_results |-> results, audio_url |-> "None"]
    /\ pc' = "awaiting_tts"

\* The tail of process_player_input (dm_agent.py:583-611) with narrative, up
\* to the await of tts_service.generate when there is one.  self.tts_service
\* is the TTSService the application is started with.
Complete(narrative, results) ==
    /\ conversation_history' =
           TrimConversationHistory(
               Append(conversation_history, TextMessage("assistant", narrative)),
               MaxMessages)
    /\ IF voice /\ narrative # <<>>
           THEN /\ tts_calls' = Append(tts_calls, narrative)
                /\ result' = [status |-> "pending", narrative |-> narrative,
                              tool_results |-> results, audio_url |-> "None"]
                /\ pc' = "awaiting_tts"
           ELSE /\ tts_calls' = tts_calls
                /\ result' = [status |-> "ok", narrative |-> narrative,
                              tool_results |-> results, audio_url |-> "None"]
                /\ pc' = "idle"

\* The first response carries tool calls (dm_agent.py:402-527): run them,
\* log the two messages, issue the final call.
FirstReplyTools(raw) ==
    /\ pc = "awaiting_model"
    /\ ~CreateMessage(backend, raw).raised
    /\ LET resp == CreateMessage(backend, raw).response
           run == RunTools(resp.tool_calls, combat_state, <<>>, <<>>)
       IN  /\ resp.tool_calls # <<>>
           /\ response' = resp
           /\ tool_results' = run.tool_results
           /\ executed' = run.executed
           /\ combat_state' = run.combat
           /\ conversation_history' =
                  conversation_history
                      \o ToolMessages(backend, resp, run.tool_results)
           /\ model_calls' =
                  Append(Settle(model_calls, "returned"), FinalCall(context_type))
    /\ pc' = "awaiting_final"
    /\ UNCHANGED <<backend, turns, player_message, context_type, final_response,
                   result, probe, voice, side_vars>>

\* The first response carries no tool call (dm_agent.py:555-611)
FirstReplyNarrates(raw) ==
    /\ pc = "awaiting_model"
    /\ ~CreateMessage(backend, raw).raised
    /\ LET resp == CreateMessage(backend, raw).response
       IN  /\ resp.tool_calls = <<>>
           /\ response' = resp
           /\ Complete(NarrativeOf(resp), tool_results)
    /\ model_calls' = Settle(model_calls, "returned")
    /\ UNCHANGED <<backend, combat_state, turns, player_message, context_type,
                   final_response, tool_results, executed, probe, voice,
                   parked, adv_vars>>

\* The final response (dm_agent.py:529-554, 583-611)
FinalReply(raw) ==
    /\ pc = "awaiting_final"
    /\ ~CreateMessage(backend, raw).raised
    /\ final_response' = CreateMessage(backend, raw).response
    /\ Complete(NarrativeOf(final_response'), tool_results)
    /\ model_calls' = Settle(model_calls, "returned")
    /\ UNCHANGED <<backend, combat_state, turns, player_message, context_type,
                   response, tool_results, executed, probe, voice, parked,
                   adv_vars>>

\* The await of tts_service.generate ends and process_player_input returns
\* (dm_agent.py:594-611)
TtsDone(outcome) ==
    /\ pc = "awaiting_tts"
    /\ result' = [result EXCEPT
                     !.status = "ok",
                     !.audio_url = IF outcome = "url" THEN "url" ELSE "None"]
    /\ pc' = "idle"
    /\ UNCHANGED <<backend, conversation_history, combat_state, turns,
                   turn_vars, model_calls, probe, side_vars>>

\* DMAgent.reset_conversation
ResetConversation ==
    /\ pc = "idle"
    /\ conversation_history # <<>>
    /\ conversation_history' = <<>>
    /\ UNCHANGED <<backend, combat_state, pc, turns, turn_vars, model_calls,
                   result, probe, side_vars>>

\* DMAgent.restore_conversation_history(messages)
RestoreConversationHistory(messages) ==
    /\ pc = "idle"
    /\ conversation_history' = RestoreMessages(messages)
    /\ UNCHANGED <<backend, combat_state, pc, turns, turn_vars, model_calls,
                   result, probe, side_vars>>

\* One client, one request at a time: a request is sent when the previous
\* one has been answered.  The requests do not ask for voice.
Next ==
    \/ \E msg \in PlayerMessages : StartTurn(msg)
    \/ \E raw \in {FailedReply} \cup NarrationReplies : CallRaises(raw)
    \/ \E raw \in ToolReplies(turns) : FirstReplyTools(raw)
    \/ \E raw \in NarrationReplies : FirstReplyNarrates(raw)
    \/ \E raw \in NarrationReplies
                    \cup {FinalToolReply(turns, Len(response.tool_calls))} :
           FinalReply(raw)
    \/ ResetConversation
    \/ \E messages \in Archives : RestoreConversationHistory(messages)

Spec == Init /\ [][Next]_vars

\* --------------------------------------------------- requests with voice
\* One client whose requests may ask for voice.
NextVoice ==
    \/ \E msg \in PlayerMessages, v \in BOOLEAN : StartTurnWith(msg, v)
    \/ \E raw \in {FailedReply} \cup NarrationReplies : CallRaises(raw)
    \/ \E raw \in {Reply(<<>>, WithIds(<<RollDice>>, turns, 0), "stop")} :
           FirstReplyTools(raw)
    \/ \E raw \in NarrationReplies : FirstReplyNarrates(raw)
    \/ \E raw \in NarrationReplies : FinalReply(raw)
    \* tts_service.generate gives the audio's URL, gives None (disabled, or
    \* a failure it caught itself), or raises
    \/ \E outcome \in {"url", "None", "raises"} : TtsDone(outcome)

SpecVoice == Init /\ [][NextVoice]_vars

\* ------------------------------------------- two requests on one orchestrator
\* The locals of the request whose steps the actions above take
Locals ==
    [pc |-> pc, turns |-> turns, player_message |-> player_message,
     context_type |-> context_type, response |-> response,
     final_response |-> final_response, tool_results |-> tool_results,
     executed |-> executed, model_calls |-> model_calls, result |-> result,
     voice |-> voice]

\* The event loop runs the other request: player_action is a coroutine of
\* the application's event loop, get_dm_agent() gives every request the same
\* DMAgent, and nothing is held across the awaits of process_player_input,
\* so while a request is suspended at an await (or has not started) the
\* other one may start or resume.
Switch ==
    /\ parked' = Locals
    /\ pc' = parked.pc
    /\ turns' = parked.turns
    /\ player_message' = parked.player_message
    /\ context_type' = parked.context_type
    /\ response' = parked.response
    /\ final_response' = parked.final_response
    /\ tool_results' = parked.tool_results
    /\ executed' = parked.executed
    /\ model_calls' = parked.model_calls
    /\ result' = parked.result
    /\ voice' = parked.voice
    /\ UNCHANGED <<backend, conversation_history, combat_state, probe,
                   tts_calls, adv_vars>>

\* Two clients of the same conversation.  The provider's tool-call ids are
\* numbered from the length of the log, which grows with every exchange.
NextTwo ==
    \/ \E msg \in {MsgHi, MsgAttack} : StartTurn(msg)
    \/ CallRaises(FailedReply)
    \/ \E raw \in {Reply(<<>>, WithIds(<<RollDice>>,
                                       Len(conversation_history), 0), "stop")} :
           FirstReplyTools(raw)
    \/ FirstReplyNarrates(Reply(TextDone, <<>>, "stop"))
    \/ FinalReply(Reply(TextDone, <<>>, "stop"))
    \/ Switch

SpecTwo == Init /\ [][NextTwo]_vars


\* ------------------------------------------- the narrative of every text
Chars == {"a", " ", ".", "!", "?", "\""}
Texts == UNION {[1..n -> Chars] : n \in 0..MaxText}

Narrating(text, finish_reason) ==
    [text |-> text, tool_calls |-> <<>>, finish_reason |-> finish_reason]

\* The narrative of a narrating response with this text
NarrateText(text, finish_reason) ==
    /\ probe = NoProbe
    /\ probe' = [op |-> "narrate", text |-> text, finish_reason |-> finish_reason,
                 first |-> NarrativeOf(Narrating(text, finish_reason)),
                 narrative |-> NarrativeOf(Narrating(text, finish_reason)),
                 passes |-> 1]
    /\ UNCHANGED <<backend, conversation_history, combat_state, pc, turns,
                   turn_vars, model_calls, result, side_vars>>

\* The narrative of a response whose text is that narrative
NarrateAgain ==
    /\ probe.op = "narrate"
    /\ probe.passes = 1
    /\ probe' = [probe EXCEPT
                    !.narrative =
                        NarrativeOf(Narrating(probe.narrative, probe.finish_reason)),
                    !.passes = 2]
    /\ UNCHANGED <<backend, conversation_history, combat_state, pc, turns,
                   turn_vars, model_calls, result, side_vars>>

NextRepair ==
    \/ \E text \in Texts, fr \in {"stop", "length"} : NarrateText(text, fr)
    \/ NarrateAgain

SpecRepair == Init /\ [][NextRepair]_vars

\* ------------------------------------------------ the trimming of every log
LogMessages == {TextMessage("user", MsgHi), TextMessage("assistant", TextDone)}
Logs == UNION {[1..n -> LogMessages] : n \in 0..MaxLog}

InitTrim ==
    /\ backend = "AnthropicClient"
    /\ conversation_history \in Logs
    /\ combat_state = CombatIdle
    /\ pc = "idle"
    /\ turns = 0
    /\ player_message = <<>>
    /\ context_type = "standard"
    /\ response = NoResponse
    /\ final_response = NoResponse
    /\ tool_results = <<>>
    /\ executed = <<>>
    /\ model_calls = <<>>
    /\ result = NoResult
    /\ probe = NoProbe
    /\ voice = FALSE
    /\ tts_calls = <<>>
    /\ parked = IdleRequest
    /\ metadata = EmptyDocument
    /\ saved = EmptyDocument
    /\ clock = 0

\* _trim_conversation_history(max_messages) called on its own
TrimCall(max_messages) ==
    /\ probe = NoProbe
    /\ conversation_history' =
           TrimConversationHistory(conversation_history, max_messages)
    /\ probe' = [op |-> "trim", max_messages |-> max_messages,
                 before |-> conversation_history]
    /\ UNCHANGED <<backend, combat_state, pc, turns, turn_vars, model_calls,
                   result, side_vars>>

NextTrim == \E max_messages \in 0..(MaxLog + 1) : TrimCall(max_messages)

SpecTrim == InitTrim /\ [][NextTrim]_vars


\* ------------------------------------------------------- a long session
\* The log of a session at the limit of the trimming: a turn in which the
\* model asked for roll_dice (the Anthropic backend), then turns of plain
\* narration, MaxMessages messages in all.
EarlierLog ==
    LET resp == NativeCreateMessage(
                    Reply(<<>>, WithIds(<<RollDice>>, 0, 0), "stop")).response
        run == RunTools(resp.tool_calls, CombatIdle, <<>>, <<>>)
        tool_turn == <<TextMessage("user", MsgAttack)>>
                         \o ToolMessages("AnthropicClient", resp,
                                          run.tool_results)
                         \o <<TextMessage("assistant", TextDone)>>
        plain_turn == <<TextMessage("user", MsgHi),
                        TextMessage("assistant", TextDone)>>
    IN  tool_turn \o Repeat(plain_turn, (MaxMessages - 4) \div 2)

InitLong ==
    /\ backend = "AnthropicClient"
    /\ conversation_history = EarlierLog
    /\ combat_state = CombatIdle
    /\ pc = "idle"
    /\ turns = 0
    /\ player_message = <<>>
    /\ context_type = "standard"
    /\ response = NoResponse
    /\ final_response = NoResponse
    /\ tool_results = <<>>
    /\ executed = <<>>
    /\ model_calls = <<>>
    /\ result = NoResult
    /\ probe = NoProbe
    /\ voice = FALSE
    /\ tts_calls = <<>>
    /\ parked = IdleRequest
    /\ metadata = EmptyDocument
    /\ saved = EmptyDocument
    /\ clock = 0

SpecLong == InitLong /\ [][Next]_vars

\* ------------------------------------------------- the adventure's operations
\* Operations called on the adventure so far
Calls == IF probe.op = "none" THEN 0 ELSE probe.calls

\* The adventure between two operations
Current == Adventure(metadata, saved)

\* datetime.now(): every reading is later than the one before it, a write
\* of adventure.json lying between any two of them.
Now == clock + 1

\* An operation returns: the document in memory, the one on disk, the last
\* reading of the clock, and what was called with what outcome.
Return(adv, time, call) ==
    /\ Calls < MaxOps
    /\ metadata' = adv.metadata
    /\ saved' = adv.saved
    /\ clock' = time
    /\ probe' = call @@ [calls |-> Calls + 1]
    /\ UNCHANGED <<backend, conversation_history, combat_state, pc, turns,
                   turn_vars, model_calls, result, tts_calls, parked>>

\* update_location that records the milestone on every visit
UpdateLocationTracksVisits(new_location) ==
    LET discovered ==
            IF In(new_location, metadata.discovered_locations) THEN Current
            ELSE Adventure([metadata EXCEPT !.discovered_locations =
                                                Append(@, new_location)],
                           saved)
        tracked == TrackExploration(discovered,
                                    Str.discovered \o new_location,
                                    new_location, Now)
    IN  Return(SaveMetadata(Adventure(
                   [tracked.metadata EXCEPT !.location = new_location],
                   tracked.saved)),
               Now,
               [op |-> "update_location", new_location |-> new_location])

\* StateManager.update_location(new_location)
UpdateLocation(new_location) ==
    LET known == In(new_location, metadata.discovered_locations)
        tracked ==
            IF known THEN Current
            ELSE TrackExploration(
                     Adventure([metadata EXCEPT !.discovered_locations =
                                                    Append(@, new_location)],
                               saved),
                     Str.discovered \o new_location, new_location, Now)
    IN  Return(SaveMetadata(Adventure(
                   [tracked.metadata EXCEPT !.location = new_location],
                   tracked.saved)),
               IF known THEN clock ELSE Now,
               [op |-> "update_location", new_location |-> new_location])

\* update_chapter that refuses a skip without prerequisite (ValueError)
UpdateChapterStrict(new_chapter, force, chapter_data) ==
    LET call == [op |-> "update_chapter", new_chapter |-> new_chapter,
                 force |-> force, chapter_data |-> chapter_data,
                 current_chapter |-> metadata.chapter]
        set == SaveMetadata(Adventure(
                   [metadata EXCEPT !.chapter = new_chapter], saved))
    IN  IF ~force /\ SkipsWithoutPrerequisite(metadata, new_chapter,
                                               chapter_data)
            THEN Return(Current, clock, call @@ [raised |-> TRUE])
        ELSE Return(set, clock, call @@ [raised |-> FALSE])

\* StateManager.update_chapter(new_chapter, force); chapter_data is what
\* load_chapter(new_chapter) returns.  A skip without prerequisite is
\* detected and passed over: the chapter is set on every path.
UpdateChapter(new_chapter, force, chapter_data) ==
    LET call == [op |-> "update_chapter", new_chapter |-> new_chapter,
                 force |-> force, chapter_data |-> chapter_data,
                 current_chapter |-> metadata.chapter, raised |-> FALSE]
        set == SaveMetadata(Adventure(
                   [metadata EXCEPT !.chapter = new_chapter], saved))
    IN  IF force THEN Return(set, clock, call)
        ELSE IF SkipsWithoutPrerequisite(metadata, new_chapter, chapter_data)
            THEN Return(set, clock, call)
        ELSE Return(set, clock, call)

\* The events added so far: those of the list when add_event was first
\* called, then the event of every call.
Added ==
    IF probe.op = "add_event" THEN probe.added ELSE metadata.important_events

\* add_event that keeps the first events
AddEventKeepsOldest(event) ==
    Return(SaveMetadata(Adventure(
               [metadata EXCEPT
                    !.important_events = Slice(Append(@, event), KeptEvents)],
               saved)),
           clock,
           [op |-> "add_event", event |-> event,
            added |-> Append(Added, event)])

\* StateManager.add_event(event)
AddEvent(event) ==
    Return(SaveMetadata(Adventure(
               [metadata EXCEPT
                    !.important_events = LastN(Append(@, event), KeptEvents)],
               saved)),
           clock,
           [op |-> "add_event", event |-> event,
            added |-> Append(Added, event)])

\* StateManager.meet_npc(npc_id)
MeetNpc(npc_id) ==
    LET known == In(npc_id, metadata.met_npcs)
        tracked ==
            IF known THEN Current
            ELSE TrackSocialInteraction(
                     Adventure([metadata EXCEPT !.met_npcs = Append(@, npc_id)],
                               saved),
                     Str.met_npc, npc_id, <<>>, Now)
    IN  Return(SaveMetadata(tracked), IF known THEN clock ELSE Now,
               [op |-> "meet_npc", npc_id |-> npc_id])

\* StateManager.add_quest(quest)
AddQuest(quest) ==
    Return(SaveMetadata(Adventure(
               [metadata EXCEPT !.active_quests = Append(@, quest)], saved)),
           clock, [op |-> "add_quest", quest |-> quest])

\* update_quest_status that leaves the file as it was
UpdateQuestStatusUnsaved(quest_id, status) ==
    LET i == FirstQuest(metadata.active_quests, quest_id)
    IN  Return(IF i = 0 THEN Current
               ELSE Adventure([metadata EXCEPT !.active_quests[i].status =
                                                   status],
                              saved),
               clock,
               [op |-> "update_quest_status", quest_id |-> quest_id,
                status |-> status])

\* StateManager.update_quest_status(quest_id, status)
UpdateQuestStatus(quest_id, status) ==
    LET i == FirstQuest(metadata.active_quests, quest_id)
        set == IF i = 0 THEN Current
               ELSE Adventure([metadata EXCEPT !.active_quests[i].status =
                                                   status],
                              saved)
        completes == /\ i # 0 /\ status = "completed"
                     /\ metadata.active_quests[i].status # "completed"
        tracked ==
            IF completes
                THEN TrackSocialInteraction(set, Str.quest_completed, <<>>,
                                            quest_id, Now)
            ELSE set
    IN  Return(SaveMetadata(tracked), IF completes THEN Now ELSE clock,
               [op |-> "update_quest_status", quest_id |-> quest_id,
                status |-> status])

\* StateManager.update_party_knowledge(key, value)
UpdatePartyKnowledge(key, value) ==
    Return(SaveMetadata(Adventure(
               [metadata EXCEPT !.party_knowledge = DictSet(@, key, value)],
               saved)),
           clock,
           [op |-> "update_party_knowledge", key |-> key, value |-> value])

\* StateManager.update_session_number(session_number)
UpdateSessionNumber(session_number) ==
    Return(SaveMetadata(Adventure(
               [metadata EXCEPT !.session_number = session_number], saved)),
           clock,
           [op |-> "update_session_number",
            session_number |-> session_number])

\* adventure.update_party_level(level)
DoUpdatePartyLevel(level) ==
    Return(UpdatePartyLevel(Current, level), clock,
           [op |-> "update_party_level", level |-> level])

\* adventure.leveling.track_combat_encounter(encounter_id, xp_value)
DoTrackCombatEncounter(encounter_id, xp_value) ==
    Return(TrackCombatEncounter(Current, encounter_id, xp_value, Now), Now,
           [op |-> "track_combat_encounter", encounter_id |-> encounter_id])

\* adventure.leveling.track_exploration(milestone, location_id)
DoTrackExploration(milestone, location_id) ==
    Return(TrackExploration(Current, milestone, location_id, Now), Now,
           [op |-> "track_exploration", milestone |-> milestone,
            location_id |-> location_id])

\* adventure.leveling.track_social_interaction(interaction_type, npc_id)
DoTrackSocialInteraction(interaction_type, npc_id) ==
    Return(TrackSocialInteraction(Current, interaction_type, npc_id, <<>>,
                                  Now),
           Now,
           [op |-> "track_social_interaction",
            interaction_type |-> interaction_type, npc_id |-> npc_id])

\* The long_rest tool and POST /long-rest:
\* adventure.leveling.process_long_rest(current_state.get("party_level", 1))
DoLongRest ==
    LET current_level == CurrentLevel(metadata)
        rest == ProcessLongRest(Current, current_level, Now, Now + 1)
    IN  Return(rest.adv, IF rest.level_up THEN Now + 1 ELSE Now,
               [op |-> "long_rest", current_level |-> current_level,
                level_up |-> rest.level_up, new_level |-> rest.new_level,
                checked_at |-> Now])

\* The check_level_up_status tool:
\* adventure.leveling.check_level_up_eligibility(current_state.get("party_level", 1))
DoCheckLevelUp ==
    LET current_level == CurrentLevel(metadata)
        check == CheckLevelUpEligibility(metadata, current_level)
    IN  Return(Current, clock,
               [op |-> "check_level_up", current_level |-> current_level,
                eligible |-> check.eligible, new_level |-> check.new_level])

\* An adventure.json as AdventureContext.__init__ loads it, with a party of
\* some level in some chapter, nothing tracked and no check made so far.
Loaded(chapter, party_level) ==
    [EmptyDocument EXCEPT !.chapter = chapter, !.party_level = party_level]

\* The orchestrator at rest with the adventure loaded from document: the
\* document in memory is the one on disk.
InitWith(document) ==
    /\ backend \in {"AnthropicClient"}
    /\ conversation_history = <<>>
    /\ combat_state = CombatIdle
    /\ pc = "idle"
    /\ turns = 0
    /\ player_message = <<>>
    /\ context_type = "standard"
    /\ response = NoResponse
    /\ final_response = NoResponse
    /\ tool_results = <<>>
    /\ executed = <<>>
    /\ model_calls = <<>>
    /\ result = NoResult
    /\ probe = NoProbe
    /\ voice = FALSE
    /\ tts_calls = <<>>
    /\ parked = IdleRequest
    /\ metadata = document
    /\ saved = document
    /\ clock = 0

\* ------------------------------------------------------- state operations
InitAdventure ==
    \E document \in {EmptyDocument, Loaded(Txt.part1_goblin_arrows, 1)} :
        InitWith(document)

\* The state updates, at most MaxUpdates of them in one behaviour
Within(update) ==
    Calls < MaxUpdates /\ update

NextAdventure ==
    \/ Within(\E new_location \in {Txt.cragmaw_hideout, Txt.cragmaw_castle} :
                  UpdateLocation(new_location))
    \/ Within(\E new_chapter \in {Txt.part1_goblin_arrows, Txt.part3_spiders_web,
                                 Str.ch02, Str.intro},
                 force \in BOOLEAN,
                 chapter_data \in {NoChapterData,
                                   [found |-> TRUE,
                                    key_locations |-> <<Txt.cragmaw_castle>>]} :
                  UpdateChapter(new_chapter, force, chapter_data))
    \/ Within(AddEvent(Str.rumor))
    \/ Within(MeetNpc(Txt.sildar_hallwinter))
    \/ Within(AddQuest([id |-> Str.rumor, status |-> "active"]))
    \/ Within(\E status \in {"active", "completed"} :
                  UpdateQuestStatus(Str.rumor, status))
    \/ Within(\E key \in {Str.knows_about, Str.rumor}, value \in BOOLEAN :
                  UpdatePartyKnowledge(key, value))
    \/ Within(UpdateSessionNumber(2))
    \/ Within(DoUpdatePartyLevel(2))
    \/ Within(DoTrackCombatEncounter(Txt.encounter_1, 0))
    \/ Within(DoTrackExploration(Str.discovered \o Txt.cragmaw_castle,
                                 Txt.cragmaw_castle))
    \/ Within(DoTrackSocialInteraction(Str.met_npc, Txt.sildar_hallwinter))
    \/ Within(DoLongRest)

SpecAdventure == InitAdventure /\ [][NextAdventure]_vars

\* ------------------------------------------------------------ the leveling
\* Parties of the levels 0, 1 (stored or not), 2, 4 and 5
InitLeveling ==
    \E document \in {EmptyDocument,
                     Loaded(Txt.part1_goblin_arrows, 0),
                     Loaded(Txt.part1_goblin_arrows, 1),
                     Loaded(Txt.part1_goblin_arrows, 2),
                     Loaded(Txt.part2_phandalin, 2),
                     Loaded(Txt.part4_wave_echo_cave, 4),
                     Loaded(Txt.part4_wave_echo_cave, 5)} :
        InitWith(document)

NextLeveling ==
    \/ \E encounter_id \in {Txt.encounter_1, Txt.Nezznar} :
           DoTrackCombatEncounter(encounter_id, 0)
    \/ DoTrackExploration(Txt.forge_found, <<>>)
    \/ UpdateLocation(Txt.redbrand_hideout)
    \/ MeetNpc(Txt.sildar_hallwinter)
    \/ DoUpdatePartyLevel(1)
    \/ DoLongRest
    \/ DoCheckLevelUp

SpecLeveling == InitLeveling /\ [][NextLeveling]_vars

\* ------------------------------------------------------------- the events
\* The n-th event of a session
Event(n) == Repeat(<<"e">>, n)

\* An adventure.json that add_event has written n events to
InitEvents ==
    \E n \in 0..KeptEvents :
        InitWith([EmptyDocument EXCEPT
                      !.important_events = [i \in 1..n |-> Event(i)]])

NextEvents ==
    \E event \in {Event(Len(Added) + 1), Str.rumor} : AddEvent(event)

SpecEvents == InitEvents /\ [][NextEvents]_vars

\* ------------------------------------------- the combat tools and the records
\* DMAgent._execute_tool(tool_name, parameters) for start_combat and
\* end_combat, with an adventure loaded: end_combat reads the engine's
\* combat state after GameEngine.end_combat() has replaced it and tracks
\* the encounter when that state has a round above 0.
ExecuteCombatTool(tool_name, parameters) ==
    LET r == ExecuteTool(tool_name, parameters, combat_state)
        \* combat_state.get("round", 0)
        round == IF "round" \in DOMAIN r.combat THEN r.combat.round ELSE 0
        tracked == /\ tool_name = "end_combat"
                   /\ r.combat.active = FALSE
                   /\ round > 0
        \* f"encounter_{round}" for a round of one digit
        encounter_id ==
            <<"e", "n", "c", "o", "u", "n", "t", "e", "r", "_">>
                \o <<(<<"0", "1", "2", "3", "4", "5", "6", "7", "8", "9">>)[round + 1]>>
        adv == IF tracked
                   THEN TrackCombatEncounter(Current, encounter_id, 0, Now)
               ELSE Current
    IN  /\ Calls < MaxOps
        /\ combat_state' = r.combat
        /\ metadata' = adv.metadata
        /\ saved' = adv.saved
        /\ clock' = IF tracked THEN Now ELSE clock
        /\ probe' = [op |-> tool_name, raised |-> r.raised, calls |-> Calls + 1]
        /\ UNCHANGED <<backend, conversation_history, pc, turns, turn_vars,
                       model_calls, result, tts_calls, parked>>

NextCombat ==
    \/ \E parameters \in {{"participants"}, {}} :
           ExecuteCombatTool("start_combat", parameters)
    \/ ExecuteCombatTool("end_combat", {})
    \/ DoTrackCombatEncounter(Txt.encounter_1, 0)
    \/ DoLongRest
    \/ DoCheckLevelUp

SpecCombat ==
    InitWith(Loaded(Txt.part1_goblin_arrows, 1)) /\ [][NextCombat]_vars

\* ------------------------------------------------- the helpers on their own
\* What a call of a helper, which touches no state, leaves as the probe
Answer(call) ==
    /\ probe = NoProbe
    /\ probe' = call
    /\ UNCHANGED <<backend, conversation_history, combat_state, pc, turns,
                   turn_vars, model_calls, result, side_vars>>

\* The texts of at most n characters of an alphabet
TextsOver(alphabet, n) == UNION {[1..k -> alphabet] : k \in 0..n}

\* --------------------------------------------------- the context manager
\* ContextManager._detect_context_need: detailed_triggers, standard_triggers
context_triggers ==
    [detailed |->
        { <<"r", "e", "c", "a", "p">>,
          <<"s", "u", "m", "m", "a", "r", "y">>,
          <<"r", "e", "m", "i", "n", "d", " ", "m", "e">>,
          <<"w", "h", "a", "t", "'", "s", " ", "h", "a", "p", "p", "e", "n", "i", "n", "g">>,
          <<"w", "h", "e", "r", "e", " ", "a", "m", " ", "i">>,
          <<"w", "h", "a", "t", " ", "w", "a", "s">>,
          <<"c", "o", "n", "f", "u", "s", "e", "d">>,
          <<"w", "h", "a", "t", "'", "s", " ", "m", "y", " ", "q", "u", "e", "s", "t">> },
     standard |->
        { <<"l", "o", "o", "k", " ", "a", "r", "o", "u", "n", "d">>,
          <<"w", "h", "a", "t", " ", "d", "o", " ", "i", " ", "s", "e", "e">>,
          <<"d", "e", "s", "c", "r", "i", "b", "e">>,
          <<"w", "h", "e", "r", "e", " ", "a", "r", "e", " ", "w", "e">>,
          <<"s", "t", "a", "t", "u", "s">>,
          <<"i", "n", "v", "e", "s", "t", "i", "g", "a", "t", "e">>,
          <<"s", "e", "a", "r", "c", "h">> }]

\* _detect_context_need with the standard triggers tested first
DetectContextNeedStandardFirst(user_input) ==
    IF AnyWordIn(context_triggers.standard, Lower(user_input)) THEN "standard"
    ELSE IF AnyWordIn(context_triggers.detailed, Lower(user_input))
        THEN "detailed"
    ELSE "minimal"

\* ContextManager._detect_context_need(user_input)
DetectContextNeed(user_input) ==
    LET lower == Lower(user_input)
    IN  IF AnyWordIn(context_triggers.detailed, lower) THEN "detailed"
        ELSE IF AnyWordIn(context_triggers.standard, lower) THEN "standard"
        ELSE "minimal"

\* What the players say
Say ==
    [attack |->
         <<"I", " ", "a", "t", "t", "a", "c", "k", " ", "t", "h", "e", " ", "g", "o", "b", "l", "i", "n">>,
     look |->
         <<"I", " ", "l", "o", "o", "k", " ", "a", "r", "o", "u", "n", "d", " ", "t", "h", "e", " ", "c", "a", "v", "e">>,
     remind |->
         <<"R", "e", "m", "i", "n", "d", " ", "m", "e", " ", "w", "h", "a", "t", "'", "s", " ", "h", "a", "p", "p", "e", "n", "i", "n", "g", "?">>,
     search |->
         <<"I", " ", "s", "e", "a", "r", "c", "h", " ", "f", "o", "r", " ", "t", "r", "a", "p", "s">>,
     move |->
         <<"I", " ", "m", "o", "v", "e", " ", "f", "o", "r", "w", "a", "r", "d">>,
     sword |->
         <<"I", " ", "a", "t", "t", "a", "c", "k", " ", "t", "h", "e", " ", "g", "o", "b", "l", "i", "n", " ", "w", "i", "t", "h", " ", "m", "y", " ", "s", "w", "o", "r", "d">>,
     recap_search |->
         <<"R", "e", "c", "a", "p", ",", " ", "t", "h", "e", "n", " ", "I", " ", "s", "e", "a", "r", "c", "h">>,
     status |->
         <<"S", "T", "A", "T", "U", "S">>,
     door_strike |->
         <<"I", " ", "o", "p", "e", "n", " ", "d", "o", "o", "r", " ", "a", "n", "d", " ", "s", "t", "r", "i", "k", "e">>,
     talk_enter |->
         <<"I", " ", "t", "a", "l", "k", " ", "a", "s", " ", "I", " ", "e", "n", "t", "e", "r">>,
     ask_search |->
         <<"I", " ", "a", "s", "k", " ", "a", "n", "d", " ", "s", "e", "a", "r", "c", "h">>,
     search_look |->
         <<"I", " ", "s", "e", "a", "r", "c", "h", " ", "a", "n", "d", " ", "l", "o", "o", "k", " ", "a", "r", "o", "u", "n", "d">>]

\* ContextManager.get_context_for_turn(user_input, turn_type): the level it
\* leaves in last_context_level and the base context it builds
GetContextForTurn(user_input, turn_type) ==
    LET level == IF turn_type = "auto" THEN DetectContextNeed(user_input)
                 ELSE turn_type
    IN  Answer([op |-> "get_context_for_turn", user_input |-> user_input,
                turn_type |-> turn_type, last_context_level |-> level,
                context |-> IF level = "minimal" THEN "minimal"
                            ELSE IF level = "standard" THEN "standard"
                            ELSE "detailed"])

\* state_manager._extract_part_number(chapter_id) called on its own
ExtractPartNumberCall(chapter_id) ==
    Answer([op |-> "_extract_part_number", chapter_id |-> chapter_id,
            part |-> ExtractPartNumber(chapter_id)])

\* POST /api/action up to the classification of the turn: the context level
\* detected for the message, then process_player_input's
\* _detect_context(player_message, game_state)
DetectContextCall(action, game_state) ==
    Answer([op |-> "_detect_context", action |-> action,
            game_state |-> game_state,
            last_context_level |-> DetectContextNeed(action),
            context_type |-> DetectContext(action, game_state)])

\* ------------------------------------------------- the quest log analyzer
\* QuestLogAnalyzer.QUEST_COMPLETION_KEYWORDS, QUEST_FAILURE_KEYWORDS,
\* QUEST_PROGRESS_KEYWORDS
QUEST_KEYWORDS ==
    [completion |->
        { <<"c", "o", "m", "p", "l", "e", "t", "e", "d">>,
          <<"f", "i", "n", "i", "s", "h", "e", "d">>,
          <<"a", "c", "c", "o", "m", "p", "l", "i", "s", "h", "e", "d">>,
          <<"f", "u", "l", "f", "i", "l", "l", "e", "d">>,
          <<"s", "u", "c", "c", "e", "e", "d", "e", "d">>,
          <<"d", "o", "n", "e">>,
          <<"a", "c", "h", "i", "e", "v", "e", "d">>,
          <<"r", "e", "s", "o", "l", "v", "e", "d">>,
          <<"c", "o", "n", "c", "l", "u", "d", "e", "d">> },
     failure |->
        { <<"f", "a", "i", "l", "e", "d">>,
          <<"l", "o", "s", "t">>,
          <<"a", "b", "a", "n", "d", "o", "n", "e", "d">>,
          <<"g", "a", "v", "e", " ", "u", "p">>,
          <<"c", "o", "u", "l", "d", "n", "'", "t", " ", "c", "o", "m", "p", "l", "e", "t", "e">>,
          <<"u", "n", "a", "b", "l", "e", " ", "t", "o">>,
          <<"i", "m", "p", "o", "s", "s", "i", "b", "l", "e">>,
          <<"t", "o", "o", " ", "l", "a", "t", "e">> },
     progress |->
        { <<"p", "r", "o", "g", "r", "e", "s", "s">>,
          <<"a", "d", "v", "a", "n", "c", "e">>,
          <<"s", "t", "e", "p", " ", "f", "o", "r", "w", "a", "r", "d">>,
          <<"c", "l", "o", "s", "e", "r">>,
          <<"d", "i", "s", "c", "o", "v", "e", "r", "e", "d">>,
          <<"f", "o", "u", "n", "d">>,
          <<"l", "e", "a", "r", "n", "e", "d">>,
          <<"u", "n", "c", "o", "v", "e", "r", "e", "d">>,
          <<"r", "e", "v", "e", "a", "l", "e", "d">> }]

\* str.split() that leaves the text in one piece
SplitWhole(s) ==
    IF \A i \in 1..Len(s) : s[i] = " " THEN <<>> ELSE <<s>>

RECURSIVE Split(_)
\* str.split(): the words between the runs of spaces
Split(s) ==
    IF s = <<>> THEN <<>>
    ELSE IF Head(s) = " " THEN Split(Tail(s))
    ELSE LET spaces == {i \in 1..Len(s) : s[i] = " "}
             stop == IF spaces = {} THEN Len(s) + 1
                     ELSE CHOOSE i \in spaces : \A j \in spaces : i <= j
         IN  <<SubSeq(s, 1, stop - 1)>> \o Split(SubSeq(s, stop, Len(s)))

RECURSIVE FindAll(_, _, _)
\* [m.group(1) for m in re.finditer(prefix + r"[:\s]+(.+?)(?:\.|$)", text,
\* re.IGNORECASE)], searched from position `from`, for a text of one line:
\* the prefix in any case, the longest run of colons and spaces that leaves
\* a character to capture, then the shortest text of one character or more
\* that a full stop or the end of the text follows.
FindAll(prefix, text, from) ==
    LET n == Len(text)
        separator(i) == i <= n /\ text[i] \in {":", " "}
        \* the last separator of the run that starts at i
        run_end(i) == CHOOSE k \in i..n :
                          /\ \A j \in i..k : separator(j)
                          /\ ~separator(k + 1)
        \* where the group starts for a match at i, 0 for no match
        group_start(i) ==
            LET first == i + Len(prefix)
            IN  IF first > n \/ ~separator(first) THEN 0
                ELSE IF run_end(first) < n THEN run_end(first) + 1
                ELSE IF run_end(first) > first THEN n
                ELSE 0
        matches_at(i) ==
            /\ i + Len(prefix) - 1 <= n
            /\ Lower(SubSeq(text, i, i + Len(prefix) - 1)) = prefix
            /\ group_start(i) > 0
        starts == {i \in from..n : matches_at(i)}
    IN  IF starts = {} THEN <<>>
        ELSE LET i == CHOOSE a \in starts : \A b \in starts : a <= b
                 g == group_start(i)
                 group_end == CHOOSE e \in g..n :
                                  /\ e = n \/ text[e + 1] = "."
                                  /\ \A d \in g..(e - 1) : text[d + 1] # "."
                 match_end == IF group_end < n THEN group_end + 1 ELSE n
             IN  <<SubSeq(text, g, group_end)>>
                     \o FindAll(prefix, text, match_end + 1)

\* QuestLogAnalyzer.analyze_response(narrative, current_quests): the action,
\* quest_id and name of each update (status follows from the action; notes
\* and description are left out)
AnalyzeResponse(narrative, current_quests) ==
    LET narrative_lower == Lower(narrative)
        words(quest) == Split(Lower(quest.name))
        mentioned(quest) ==
            /\ Lower(quest.name) # <<>>
            /\ \/ Contains(Lower(quest.name), narrative_lower)
               \/ \E w \in 1..Len(words(quest)) :
                      Contains(words(quest)[w], narrative_lower)
        \* _extract_relevant_snippet(narrative, quest_name) != ""
        progress_note(quest) ==
            \/ Contains(Lower(quest.name), narrative_lower)
            \/ \E w \in 1..Len(words(quest)) :
                   /\ Len(words(quest)[w]) > 3
                   /\ Contains(words(quest)[w], narrative_lower)
        for_quests(action, keywords, Test(_)) ==
            LET hit(quest) == /\ AnyWordIn(keywords, narrative_lower)
                              /\ mentioned(quest)
                              /\ Test(quest)
                hits == SelectSeq(current_quests, hit)
            IN  [i \in 1..Len(hits) |->
                    [action |-> action, quest_id |-> hits[i].id,
                     name |-> hits[i].name]]
        any(quest) == TRUE
        strip(s) ==
            LET inked == {i \in 1..Len(s) : s[i] # " "}
            IN  IF inked = {} THEN <<>>
                ELSE SubSeq(s, CHOOSE a \in inked : \A b \in inked : a <= b,
                               CHOOSE a \in inked : \A b \in inked : a >= b)
        known(quest_name) ==
            \E q \in 1..Len(current_quests) :
                Lower(current_quests[q].name) = Lower(quest_name)
        for_pattern(prefix) ==
            LET groups == FindAll(prefix, narrative, 1)
                names == [i \in 1..Len(groups) |-> strip(groups[i])]
                new(quest_name) == /\ quest_name # <<>>
                                   /\ Len(quest_name) < 100
                                   /\ ~known(quest_name)
                kept == SelectSeq(names, new)
            IN  [i \in 1..Len(kept) |->
                    [action |-> "create", name |-> kept[i]]]
    IN  for_quests("complete", QUEST_KEYWORDS.completion, any)
            \o for_quests("fail", QUEST_KEYWORDS.failure, any)
            \o for_quests("update", QUEST_KEYWORDS.progress, progress_note)
            \o for_pattern(<<"n", "e", "w", " ", "q", "u", "e", "s", "t">>)
            \o for_pattern(<<"y", "o", "u", "r", " ", "q", "u", "e", "s", "t">>)
            \o for_pattern(<<"m", "i", "s", "s", "i", "o", "n">>)
            \o for_pattern(<<"t", "a", "s", "k">>)

\* What the DM narrates
Told ==
    [scenario |->
         <<"Y", "o", "u", " ", "h", "a", "v", "e", " ", "f", "i", "n", "a", "l", "l", "y", " ", "c", "o", "m", "p", "l", "e", "t", "e", "d", " ", "t", "h", "e", " ", "s", "e", "a", "r", "c", "h", " ", "f", "o", "r", " ", "t", "h", "e", " ", "L", "o", "s", "t", " ", "M", "i", "n", "e", ".">>,
     rescued |->
         <<"G", "u", "n", "d", "r", "e", "n", " ", "i", "s", " ", "s", "a", "f", "e", ":", " ", "t", "h", "e", " ", "t", "a", "s", "k", " ", "i", "s", " ", "d", "o", "n", "e", ".">>,
     known |->
         <<"N", "e", "w", " ", "q", "u", "e", "s", "t", ":", " ", "f", "i", "n", "d", " ", "t", "h", "e", " ", "L", "O", "S", "T", " ", "m", "i", "n", "e", ".", " ", "R", "e", "s", "t", " ", "n", "o", "w", ".">>,
     dragon |->
         <<"N", "E", "W", " ", "Q", "U", "E", "S", "T", ":", " ", "S", "l", "a", "y", " ", "t", "h", "e", " ", "d", "r", "a", "g", "o", "n", ".", " ", "Y", "o", "u", "r", " ", "q", "u", "e", "s", "t", ":", " ", " ", "r", "e", "s", "c", "u", "e", " ", "g", "u", "n", "d", "r", "e", "n">>,
     fled |->
         <<"T", "h", "e", " ", "g", "o", "b", "l", "i", "n", "s", " ", "f", "l", "e", "d", ".">>,
     clue |->
         <<"Y", "o", "u", " ", "d", "i", "s", "c", "o", "v", "e", "r", "e", "d", " ", "a", " ", "c", "l", "u", "e", " ", "a", "b", "o", "u", "t", " ", "t", "h", "e", " ", "m", "i", "n", "e">>,
     the_map |->
         <<"T", "h", "e", "y", " ", "l", "e", "a", "r", "n", "e", "d", " ", "t", "h", "e", " ", "w", "a", "y">>,
     mission |->
         <<"M", "i", "s", "s", "i", "o", "n", ":", " ">>]

\* The quests of the session's quest log
Quests ==
    [lost_mine |-> [id |-> "quest_1", name |-> <<"F", "i", "n", "d", " ", "t", "h", "e", " ", "L", "o", "s", "t", " ", "M", "i", "n", "e">>],
     gundren |-> [id |-> "quest_2", name |-> <<"R", "e", "s", "c", "u", "e", " ", "G", "u", "n", "d", "r", "e", "n">>]]

\* extract_quest_updates_from_narrative(narrative, current_quests)
AnalyzeResponseCall(narrative, current_quests) ==
    Answer([op |-> "analyze_response", narrative |-> narrative,
            current_quests |-> current_quests,
            updates |-> AnalyzeResponse(narrative, current_quests)])

NextHelpers ==
    \/ \E prefix \in {Str.part, Str.ch, <<>>},
          rest \in TextsOver({"0", "2", "x"}, MaxText) :
           ExtractPartNumberCall(prefix \o rest)
    \/ \E user_input \in {Say[k] : k \in DOMAIN Say},
          turn_type \in {"auto", "minimal", "standard", "detailed"} :
           GetContextForTurn(user_input, turn_type)
    \/ \E action \in {Say[k] : k \in DOMAIN Say},
          game_state \in {GetState(CombatIdle), GetState(CombatStarted),
                          GetState(CombatEnded), [combat_active |-> TRUE]} :
           DetectContextCall(action, game_state)
    \/ \E narrative \in {Told[k] : k \in DOMAIN Told},
          current_quests \in {<<>>, <<Quests.lost_mine>>, <<Quests.gundren>>,
                              <<Quests.lost_mine, Quests.gundren>>} :
           AnalyzeResponseCall(narrative, current_quests)

SpecHelpers == InitWith(EmptyDocument) /\ [][NextHelpers]_vars


\* ================================================================ claims
Ids(tool_calls) == [i \in 1..Len(tool_calls) |-> tool_calls[i].id]
Names(tool_calls) == [i \in 1..Len(tool_calls) |-> tool_calls[i].name]
Last(s) == s[Len(s)]

\* A call whose execution raises: roll_dice without its "dice"
MissingParameter(tool_call) ==
    tool_call.name = "roll_dice" /\ "dice" \notin tool_call.parameters

InFlight == {i \in 1..Len(model_calls) : model_calls[i].status = "in_flight"}

\* C1: once the first response's tool calls c1..cn have been handled, every
\* call has been executed in order and tool_results holds exactly n entries,
\* entry i being {tool, parameters, result} of ci; a call that raises has
\* the result {error, success: false}, the calls after it are executed all
\* the same, and the final narration call has been issued.
C1_EveryCallGetsAResult ==
    response.tool_calls # <<>> =>
        /\ executed = Ids(response.tool_calls)
        /\ Len(tool_results) = Len(response.tool_calls)
        /\ \A i \in 1..Len(response.tool_calls) :
               LET tc == response.tool_calls[i]
               IN  /\ i <= Len(tool_results)
                   /\ tool_results[i].tool = tc.name
                   /\ tool_results[i].parameters = tc.parameters
                   /\ MissingParameter(tc) =>
                          /\ tool_results[i].result.error
                          /\ tool_results[i].result.success_false
                   /\ (tc.name = "roll_dice" /\ ~MissingParameter(tc)) =>
                          ~tool_results[i].result.error
        /\ Len(model_calls) = 2
        /\ model_calls[2].phase = 2
        /\ result.status = "ok" => result.tool_results = tool_results

\* C1 witness: a first call that raised, followed by a call that ran
C1_Witness ==
    /\ pc = "awaiting_final"
    /\ Len(response.tool_calls) = 2
    /\ MissingParameter(response.tool_calls[1])
    /\ ~MissingParameter(response.tool_calls[2])
    /\ Len(tool_results) = 2
    /\ ~tool_results[2].result.error

\* C2: a turn goes idle -> awaiting the model -> (tools, awaiting the final
\* model call)? -> idle.  It makes one model call when the first response
\* has no tool call and two when it has; the second is issued when all the
\* tool calls of the first response have been executed and the first has
\* returned, carries no tool set, and nothing is executed for the tool calls
\* of the second response.
C2_TurnStateMachine ==
    /\ pc \in {"idle", "awaiting_model", "awaiting_final"}
    /\ Cardinality(InFlight) <= 1
    /\ pc = "idle" => InFlight = {}
    /\ pc = "awaiting_model" =>
           /\ Len(model_calls) = 1
           /\ model_calls[1].phase = 1
           /\ InFlight = {1}
           /\ executed = <<>>
    /\ pc = "awaiting_final" =>
           /\ Len(model_calls) = 2
           /\ InFlight = {2}
    /\ Len(model_calls) <= 2
    /\ Len(model_calls) = 2 =>
           /\ model_calls[1].status = "returned"
           /\ model_calls[2].phase = 2
           /\ ~model_calls[2].tools
           /\ response.tool_calls # <<>>
           /\ executed = Ids(response.tool_calls)
    /\ result.status = "ok" =>
           /\ Len(model_calls) = IF response.tool_calls = <<>> THEN 1 ELSE 2
           /\ executed = Ids(response.tool_calls)
           /\ Len(result.tool_results) = Len(response.tool_calls)

\* C2 witness: a turn that returned after a final response asking for a tool
C2_Witness ==
    /\ result.status = "ok"
    /\ Len(model_calls) = 2
    /\ final_response.tool_calls # <<>>

UseIds(m) ==
    LET uses == SelectSeq(m.blocks, LAMBDA b : b.type = "tool_use")
    IN  [i \in 1..Len(uses) |-> uses[i].id]

\* The assistant's tool-use message and the tool-result message that answers
\* it id by id
LinkedExchange(a, u) ==
    /\ a.role = "assistant" /\ a.kind = "blocks"
    /\ u.role = "user" /\ u.kind = "blocks"
    /\ UseIds(a) = Ids(response.tool_calls)
    /\ \A i \in 1..Len(u.blocks) : u.blocks[i].type = "tool_result"
    /\ [i \in 1..Len(u.blocks) |-> u.blocks[i].id] = Ids(response.tool_calls)
    /\ [i \in 1..Len(u.blocks) |-> u.blocks[i].content]
           = [i \in 1..Len(tool_results) |-> tool_results[i].result]

\* The two plain texts: the tool names, then one line per result by tool name
PlainExchange(a, u) ==
    /\ a.role = "assistant" /\ a.kind = "used_tools"
    /\ a.names = Names(response.tool_calls)
    /\ u.role = "user" /\ u.kind = "tool_results"
    /\ u.entries = [i \in 1..Len(tool_results) |->
                       [tool |-> tool_results[i].tool,
                        result |-> tool_results[i].result]]
    /\ a.blocks = <<>> /\ u.blocks = <<>>

LastTwoAre(P(_, _)) ==
    /\ Len(conversation_history) >= 2
    /\ P(conversation_history[Len(conversation_history) - 1],
         conversation_history[Len(conversation_history)])

\* C3 as claimed: for every backend, when the tools have run the log ends
\* with the assistant's tool-use message immediately followed by a
\* tool-result message holding exactly one tool_result per call id.
C3_LinkedForEveryBackend ==
    pc = "awaiting_final" => LastTwoAre(LinkedExchange)

\* C3 as amended: that holds for the Anthropic backend; for the other
\* backends the log ends with a plain-text assistant message naming the
\* tools in call order, immediately followed by a plain-text user message
\* listing one result per call in call order, by tool name and with no id.
C3_LinkedForAnthropic ==
    pc = "awaiting_final" =>
        IF backend = "AnthropicClient" THEN LastTwoAre(LinkedExchange)
        ELSE LastTwoAre(PlainExchange)

\* C3 witness: the Anthropic backend after a response with two tool calls
C3_Witness ==
    /\ pc = "awaiting_final"
    /\ backend = "AnthropicClient"
    /\ Len(response.tool_calls) = 2
    /\ response.tool_calls[1].id # response.tool_calls[2].id

\* C4: in every tool-using turn the output-length limit the backend applies
\* to the final narration call is strictly larger than the one it applied to
\* the first call of the turn.
C4_FinalLimitIsLarger ==
    Len(model_calls) = 2 => model_calls[2].applied > model_calls[1].applied

\* C5: no message of the conversation log has empty content.
C5_NoEmptyMessage ==
    \A i \in 1..Len(conversation_history) : ~EmptyContent(conversation_history[i])

\* C6: a model call that fails is not retried: it is the last model call of
\* its turn, the turn is over, no narrative is returned and the caller gets
\* the failure; and a turn fails this way only.
C6_FailedCallEndsTurn ==
    /\ (\E i \in 1..Len(model_calls) : model_calls[i].status = "raised")
           <=> result.status = "failed"
    /\ result.status = "failed" =>
           /\ pc = "idle"
           /\ InFlight = {}
           /\ model_calls[Len(model_calls)].status = "raised"
           /\ \A i \in 1..(Len(model_calls) - 1) : model_calls[i].status = "returned"
           /\ result.narrative = <<>>

\* C6 witness: the final call of a tool-using turn failed
C6_Witness ==
    /\ result.status = "failed"
    /\ Len(model_calls) = 2
    /\ model_calls[2].status = "raised"

\* C7: a turn never completes successfully with an empty narrative.
C7_NoEmptyNarrative ==
    result.status = "ok" => result.narrative # <<>>

SentenceEnds(s) == {i \in 1..Len(s) : s[i] \in SentenceEnd}

\* The text up to and with its last '.', '!' or '?' (all of it when it has none)
UpToLastSentenceEnd(s) ==
    IF SentenceEnds(s) = {} THEN s ELSE SubSeq(s, 1, Max(SentenceEnds(s)))

AskUnlessAsked(s) == IF EndsWith(s, {"?"}) THEN s ELSE s \o Question

\* C8 as claimed, read up to surrounding white space: under finish_reason
\* length the narrative ends with '?', is the model text without what
\* follows its last '.', '!' or '?', with the question appended unless that
\* ends in '?', and is the fallback prompt when no usable text is left;
\* otherwise it is the model text.
C8_CutAfterLastSentenceEnd ==
    (probe.op = "narrate" /\ probe.passes = 1) =>
        IF probe.finish_reason = "length"
            THEN LET cut == UpToLastSentenceEnd(RStrip(probe.text))
                 IN  /\ Last(probe.narrative) = "?"
                     /\ Strip(probe.narrative) =
                            IF cut = <<>> THEN Fallback
                            ELSE Strip(AskUnlessAsked(cut))
        ELSE probe.narrative = probe.text

\* What the repair keeps of a text: the text without trailing white space,
\* cut after its last '.', '!' or '?' only when it does not end in one of
\* . ! ? " ' and that last punctuation is not its first character.
Kept(text) ==
    LET s == RStrip(text)
    IN  IF /\ ~EndsWith(s, ClosingChars)
           /\ SentenceEnds(s) # {}
           /\ Max(SentenceEnds(s)) > 1
            THEN SubSeq(s, 1, Max(SentenceEnds(s)))
        ELSE s

\* C8 as amended: under finish_reason length the narrative ends with '?';
\* for a non-empty model text it is Kept(text), with " What do you do?"
\* appended unless that ends in '?'; for an empty model text it is exactly
\* the fallback prompt; under another finish_reason it is the model text.
C8_RepairKeepsClosedText ==
    (probe.op = "narrate" /\ probe.passes = 1) =>
        IF probe.finish_reason = "length"
            THEN /\ Last(probe.narrative) = "?"
                 /\ probe.text = <<>> => probe.narrative = Fallback
                 /\ probe.text # <<>> =>
                        probe.narrative = AskUnlessAsked(Kept(probe.text))
        ELSE probe.narrative = probe.text

\* C8 witness: a truncated text that was cut back to its last full sentence
C8_Witness ==
    /\ probe.op = "narrate"
    /\ probe.passes = 1
    /\ probe.finish_reason = "length"
    /\ Len(Kept(probe.text)) < Len(RStrip(probe.text))
    /\ probe.narrative = Kept(probe.text) \o Question

\* C9: the truncation repair is idempotent: repairing the narrative of a
\* text gives that narrative again.
C9_RepairIdempotent ==
    (probe.op = "narrate" /\ probe.passes = 2) => probe.narrative = probe.first

\* C9 witness: a narrative the first repair changed, repaired again
C9_Witness ==
    /\ probe.op = "narrate"
    /\ probe.passes = 2
    /\ probe.finish_reason = "length"
    /\ probe.text # <<>>
    /\ probe.first # probe.text

IsSuffix(a, b) ==
    /\ Len(a) <= Len(b)
    /\ SubSeq(b, Len(b) - Len(a) + 1, Len(b)) = a

Waiting(locals) == locals.pc \in {"awaiting_model", "awaiting_final"}

\* C11: two turns on the same conversation never interleave: while a
\* process_player_input call is waiting for a model call, no step of another
\* call appends to the conversation log or executes tools (every tool
\* execution appends its two messages in the same step), so the log and the
\* combat state stay as they are until the waiting call resumes.
C11_NoInterleaving ==
    [][Waiting(parked) =>
           /\ conversation_history' = conversation_history
           /\ combat_state' = combat_state]_vars

\* C12: a failure of the audio collaborator never fails the turn, and the
\* collaborator is called only for a turn that asked for voice: generate is
\* called only by a turn whose voice is true, at most once per turn and with
\* the turn's narrative; whatever generate then does (a URL, None, an
\* exception), the turn returns that narrative, with audio_url None unless
\* generate gave a URL.
C12_AudioNeverFailsTheTurn ==
    [][/\ tts_calls' # tts_calls =>
           /\ voice
           /\ pc # "awaiting_tts" /\ pc' = "awaiting_tts"
           /\ result'.status = "pending"
           /\ tts_calls' = Append(tts_calls, result'.narrative)
           /\ Len(tts_calls') <= turns
       /\ pc = "awaiting_tts" =>
           /\ tts_calls' = tts_calls
           /\ pc' = "idle"
           /\ result'.status = "ok"
           /\ result'.narrative = Last(tts_calls)
           /\ result'.narrative = Last(conversation_history').text
           /\ result'.audio_url \in {"url", "None"}
       /\ result'.status \in {"none", "failed"} =>
           result'.audio_url = "None"]_vars

\* C12 witness: a voice turn whose audio was not produced, returned with
\* its narrative and no audio_url
C12_Witness ==
    /\ pc = "idle"
    /\ voice
    /\ tts_calls # <<>>
    /\ result.status = "ok"
    /\ result.narrative # <<>>
    /\ result.audio_url = "None"

Count(x, lst) == Cardinality({i \in 1..Len(lst) : lst[i] = x})

C15_LastTwentyEvents ==
    probe.op = "add_event" =>
        /\ Len(metadata.important_events) <= 20
        /\ Len(metadata.important_events) = Min2(20, Len(probe.added))
        /\ IsSuffix(metadata.important_events, probe.added)

\* More than 20 events were added, the last one after the list was full.
C15_Witness ==
    /\ probe.op = "add_event"
    /\ Len(probe.added) > 20
    /\ Len(metadata.important_events) = 20
    /\ metadata.important_events[20] = probe.event
    /\ metadata.important_events[1] # probe.added[1]

\* C16: the adventure state is write-through: whenever one of its mutating
\* operations (update_location, update_chapter, add_event, meet_npc,
\* add_quest, update_quest_status, update_party_knowledge,
\* update_session_number, update_party_level, a track_* call or a long rest)
\* has returned, the document on disk equals the metadata in memory.
C16_WriteThrough ==
    probe.op \in {"update_location", "update_chapter", "add_event",
                  "meet_npc", "add_quest", "update_quest_status",
                  "update_party_knowledge", "update_session_number",
                  "update_party_level", "track_combat_encounter",
                  "track_exploration", "track_social_interaction",
                  "long_rest"}
        => saved = metadata

\* A quest was added and its completion recorded, and both are on disk.
C16_Witness ==
    /\ probe.op = "update_quest_status"
    /\ probe.status = "completed"
    /\ metadata.active_quests # <<>>
    /\ metadata.active_quests[1].status = "completed"
    /\ metadata.social_interactions # <<>>
    /\ saved = metadata

\* The milestone's required objectives that the check infers complete
AllObjectivesComplete(md, milestone) ==
    \A i \in 1..Len(milestone.required) :
        In(milestone.required[i], CompletedObjectives(md, milestone.required))

\* C17: check_level_up_eligibility answers eligible only when a milestone
\* exists for the current level, the current chapter matches the
\* milestone's chapter, the milestone's required objectives are inferred
\* complete and there is recent progression; in particular a party of level
\* 2 to 4 whose chapter does not match, or whose required objectives are
\* not complete, is never eligible.
C17_EligibleOnlyWhenAllHold ==
    (probe.op = "check_level_up" /\ probe.eligible) =>
        /\ probe.current_level \in DOMAIN LEVEL_MILESTONES
        /\ RecentActivity(metadata)
        /\ probe.current_level \in 2..4 =>
               /\ ChapterMatch(metadata, LEVEL_MILESTONES[probe.current_level])
               /\ AllObjectivesComplete(metadata,
                                        LEVEL_MILESTONES[probe.current_level])

\* A step in which a long rest is processed
LongRestReturns == probe' # probe /\ probe'.op = "long_rest"

\* C18: process_long_rest(L) stamps last_level_up.checked_at on every call;
\* the party level changes exactly when the rest answers level_up, and then
\* it is the answered new_level = L + 1 and the level-up is recorded in
\* last_level_up; an ineligible rest leaves the party level as it was.
C18_LongRestCommitsTheLevel ==
    [][LongRestReturns =>
        /\ metadata'.last_level_up.checked_at = probe'.checked_at
        /\ metadata'.last_level_up.checked_at
               > metadata.last_level_up.checked_at
        /\ metadata'.last_level_up.level = probe'.current_level
        /\ (metadata'.party_level # metadata.party_level) <=> probe'.level_up
        /\ probe'.level_up =>
               /\ probe'.new_level = probe'.current_level + 1
               /\ metadata'.party_level = probe'.new_level
               /\ metadata'.last_level_up.leveled_up
               /\ metadata'.last_level_up.new_level = probe'.new_level
               /\ metadata'.last_level_up.leveled_at
                      >= metadata'.last_level_up.checked_at]_vars

\* A rest has levelled the party up and recorded it.
C18_Witness ==
    /\ probe.op = "long_rest" /\ probe.level_up
    /\ metadata.party_level = probe.current_level + 1
    /\ metadata.last_level_up.new_level = metadata.party_level
    /\ metadata.last_level_up.checked_at = probe.checked_at

\* C19: no sequence of long rests raises the party level above 5: at level
\* 5 or more the rest is ineligible and leaves the level as it is, and a
\* level that has no milestone is ineligible.
C19_LevelCap ==
    [][LongRestReturns =>
        /\ metadata'.party_level # metadata.party_level =>
               metadata'.party_level <= 5
        /\ probe'.current_level >= 5 =>
               /\ ~probe'.level_up
               /\ metadata'.party_level = metadata.party_level
        /\ probe'.current_level \notin DOMAIN LEVEL_MILESTONES =>
               ~probe'.level_up]_vars

\* A party of level 5 with progression recorded rests and stays at level 5.
C19_Witness ==
    /\ probe.op = "long_rest" /\ probe.current_level = 5
    /\ ~probe.level_up
    /\ metadata.party_level = 5
    /\ CompletedAts(metadata) # {}
    /\ metadata.last_level_up.checked_at = probe.checked_at

\* C20: once a long rest has timestamped an eligibility check, a later long
\* rest levels the party up only if a combat, exploration or social record
\* was recorded after that check; two long rests with no such record
\* between them never both level up.
C20_ProgressBetweenLevelUps ==
    [][LongRestReturns =>
        /\ (metadata.last_level_up.checked_at # NoTime /\ probe'.level_up) =>
               \E t \in CompletedAts(metadata) :
                   t > metadata.last_level_up.checked_at
        /\ (probe.op = "long_rest" /\ probe.level_up) => ~probe'.level_up]_vars

\* A rest that levelled the party up is followed at once by a second rest,
\* which finds the chapter of the next milestone reached but nothing
\* recorded since the check, and does not level up.
C20_Witness ==
    /\ probe.op = "long_rest" /\ ~probe.level_up
    /\ probe.current_level \in DOMAIN LEVEL_MILESTONES
    /\ metadata.last_level_up.leveled_up
    /\ metadata.last_level_up.new_level = probe.current_level
    /\ ChapterProgress(metadata, probe.current_level,
                       LEVEL_MILESTONES[probe.current_level])
    /\ \A t \in CompletedAts(metadata) :
           t < metadata.last_level_up.leveled_at

\* A long rest of a party of level 1 in part1_goblin_arrows that has a
\* combat encounter on record
FirstLevelRest ==
    /\ LongRestReturns
    /\ probe'.current_level = 1
    /\ metadata.chapter = Txt.part1_goblin_arrows
    /\ Len(metadata.combat_encounters) >= 1

\* C21: for a party of level 1 in chapter part1_goblin_arrows with at least
\* one recorded combat encounter, process_long_rest(1) answers level_up with
\* new_level 2 and sets the party level to 2.
C21_FirstLevelNeedsOneCombat ==
    [][FirstLevelRest =>
        /\ probe'.level_up
        /\ probe'.new_level = 2
        /\ metadata'.party_level = 2]_vars

\* C21 as the program has it: the rest levels the party up when, besides,
\* no eligibility check has been stamped yet or a progression record is
\* later than the last one; otherwise the rest answers level_up false and
\* the level stays 1.
C21_FirstLevelNeedsRecentProgress ==
    [][FirstLevelRest =>
        IF \/ metadata.last_level_up.checked_at = NoTime
           \/ \E t \in CompletedAts(metadata) :
                  t > metadata.last_level_up.checked_at
            THEN /\ probe'.level_up
                 /\ probe'.new_level = 2
                 /\ metadata'.party_level = 2
        ELSE /\ ~probe'.level_up
             /\ metadata'.party_level = metadata.party_level]_vars

\* A party of level 1 in part 1 rested after a combat and is of level 2.
C21_Witness ==
    /\ probe.op = "long_rest" /\ probe.current_level = 1
    /\ probe.level_up /\ probe.new_level = 2
    /\ metadata.chapter = Txt.part1_goblin_arrows
    /\ Len(metadata.combat_encounters) >= 1
    /\ metadata.party_level = 2

\* C22: _extract_part_number answers the integer formed by the digits that
\* immediately follow the prefix 'part' or 'ch' of the chapter id, and no
\* ordinal when no digit immediately follows the prefix.
C22_DigitsAfterThePrefix ==
    probe.op = "_extract_part_number" =>
        LET id == probe.chapter_id
            after(prefix) ==
                IF /\ Len(id) >= Len(prefix)
                   /\ SubSeq(id, 1, Len(prefix)) = prefix
                    THEN LeadingDigits(SubSeq(id, Len(prefix) + 1, Len(id)))
                ELSE <<>>
        IN  IF after(Str.part) # <<>> THEN probe.part = ToInt(after(Str.part))
            ELSE IF after(Str.ch) # <<>> THEN probe.part = ToInt(after(Str.ch))
            ELSE probe.part = NoPart

\* C23: with turn_type 'auto' the lower-cased input is tested against the
\* detailed triggers first, then the standard ones, and is minimal otherwise:
\* exactly one level, detailed when both sets match; an explicit turn_type is
\* the level, whatever the input; and the inputs of the test suite get the
\* levels it expects.
C23_ContextLevel ==
    probe.op = "get_context_for_turn" =>
        LET lower == Lower(probe.user_input)
            level == probe.last_context_level
            asks_detail == AnyWordIn(context_triggers.detailed, lower)
            asks_look == AnyWordIn(context_triggers.standard, lower)
        IN  /\ probe.context = level
            /\ probe.turn_type # "auto" => level = probe.turn_type
            /\ probe.turn_type = "auto" =>
                   /\ level \in {"detailed", "standard", "minimal"}
                   /\ level = "detailed" <=> asks_detail
                   /\ level = "standard" <=> ~asks_detail /\ asks_look
                   /\ probe.user_input = Say.remind => level = "detailed"
                   /\ probe.user_input \in {Say.search, Say.look}
                          => level = "standard"
                   /\ probe.user_input \in {Say.attack, Say.move}
                          => level = "minimal"
                   /\ probe.user_input = Say.recap_search =>
                          asks_detail /\ asks_look /\ level = "detailed"

\* An input matching both sets was given the detailed level by detection.
C23_Witness ==
    /\ probe.op = "get_context_for_turn"
    /\ probe.turn_type = "auto"
    /\ probe.user_input = Say.recap_search
    /\ probe.last_context_level = "detailed"

\* C24: the turn classifier answers the first matching class in the order
\* combat, scene transition, dialogue, skill check, exploration, and standard
\* otherwise; the answer is settled by the action text and the game state,
\* whatever context level the same input was given: 'I attack the goblin with
\* my sword' is a combat_action while its context level is minimal.
C24_FirstMatchingClass ==
    probe.op = "_detect_context" =>
        LET has(words) == AnyWordIn(words, Lower(probe.action))
            flagged == /\ "combat_active" \in DOMAIN probe.game_state
                       /\ probe.game_state["combat_active"] = TRUE
            type == probe.context_type
        IN  /\ type = "combat_action" <=> flagged \/ has(combat_words)
            /\ type = "scene_description" <=>
                   ~flagged /\ ~has(combat_words) /\ has(scene_words)
            /\ type = "npc_dialogue" <=>
                   /\ ~flagged /\ ~has(combat_words) /\ ~has(scene_words)
                   /\ has(dialogue_words)
            /\ type = "skill_check" <=>
                   /\ ~flagged /\ ~has(combat_words) /\ ~has(scene_words)
                   /\ ~has(dialogue_words) /\ has(skill_words)
            /\ type = "exploration" <=>
                   /\ ~flagged /\ ~has(combat_words) /\ ~has(scene_words)
                   /\ ~has(dialogue_words) /\ ~has(skill_words)
                   /\ has(explore_words)
            /\ type = "standard" <=>
                   /\ ~flagged /\ ~has(combat_words) /\ ~has(scene_words)
                   /\ ~has(dialogue_words) /\ ~has(skill_words)
                   /\ ~has(explore_words)
            /\ probe.action = Say.sword =>
                   type = "combat_action" /\ probe.last_context_level = "minimal"
            /\ probe.action = Say.talk_enter /\ ~flagged =>
                   has(scene_words) /\ has(dialogue_words)
                       /\ type = "scene_description"
            /\ probe.action = Say.search /\ ~flagged =>
                   type = "skill_check" /\ probe.last_context_level = "standard"

\* The sword attack was classified with no combat flagged in the game state.
C24_Witness ==
    /\ probe.op = "_detect_context"
    /\ probe.action = Say.sword
    /\ probe.game_state = GetState(CombatIdle)
    /\ probe.context_type = "combat_action"
    /\ probe.last_context_level = "minimal"

\* C30: while combat is active in the game engine, every player action is
\* classified combat_action whatever its text, the classifier being given
\* the state that GameEngine.get_state() returns.
C30_ActiveCombatIsCombatAction ==
    /\ probe.op = "_detect_context"
    /\ probe.game_state = GetState(CombatStarted)
    => probe.context_type = "combat_action"

\* The words of a name: its longest pieces without a space
WordsOf(name) ==
    {SubSeq(name, ends[1], ends[2]) :
        ends \in {e \in (1..Len(name)) \X (1..Len(name)) :
                     /\ e[1] <= e[2]
                     /\ \A i \in e[1]..e[2] : name[i] # " "
                     /\ e[1] = 1 \/ name[e[1] - 1] = " "
                     /\ e[2] = Len(name) \/ name[e[2] + 1] = " "}}

\* The updates of one action that the analyzer proposed for a quest
UpdatesFor(action, quest) ==
    {k \in 1..Len(probe.updates) :
        /\ probe.updates[k].action = action
        /\ probe.updates[k].quest_id = quest.id}

\* C25: for a narrative that holds a completion keyword and mentions an
\* existing quest by its name or by a word of its name, analyze_response
\* proposes one complete action with that quest's id; each quest gets at most
\* one action of each kind (complete, fail, update); and a create action is
\* proposed only for a captured name that is the name of no current quest,
\* letter case aside.
C25_QuestUpdates ==
    probe.op = "analyze_response" =>
        LET narrative_lower == Lower(probe.narrative)
            quests == {probe.current_quests[q] :
                          q \in 1..Len(probe.current_quests)}
            names(quest) == {Lower(quest.name)} \cup WordsOf(Lower(quest.name))
        IN  /\ \A quest \in quests :
                   /\ AnyWordIn(QUEST_KEYWORDS.completion, narrative_lower)
                   /\ \E name \in names(quest) : Contains(name, narrative_lower)
                   => Cardinality(UpdatesFor("complete", quest)) = 1
            /\ \A quest \in quests, action \in {"complete", "fail", "update"} :
                   Cardinality(UpdatesFor(action, quest)) <= 1
            /\ \A k \in 1..Len(probe.updates) :
                   probe.updates[k].action = "create" =>
                       \A quest \in quests :
                           Lower(quest.name) # Lower(probe.updates[k].name)

\* The narrative of the scenario, which mentions 'Find the Lost Mine' by its
\* words only, got that quest its complete action.
C25_Witness ==
    /\ probe.op = "analyze_response"
    /\ probe.narrative = Told.scenario
    /\ ~Contains(Lower(Quests.lost_mine.name), Lower(probe.narrative))
    /\ \E k \in 1..Len(probe.updates) :
           /\ probe.updates[k].action = "complete"
           /\ probe.updates[k].quest_id = Quests.lost_mine.id

\* C26: in the log, after any turns and after the trimming to the most
\* recent 50 messages, every tool_result block comes after an assistant
\* message that holds the tool_use block of the same id.
C26_ResultsFollowTheirUse ==
    \A i \in 1..Len(conversation_history) :
        \A b \in 1..Len(conversation_history[i].blocks) :
            conversation_history[i].blocks[b].type = "tool_result" =>
                \E j \in 1..(i - 1) :
                    /\ conversation_history[j].role = "assistant"
                    /\ \E u \in 1..Len(conversation_history[j].blocks) :
                           /\ conversation_history[j].blocks[u].type = "tool_use"
                           /\ conversation_history[j].blocks[u].id
                                  = conversation_history[i].blocks[b].id

\* C27: a turn that fails because a model call raises leaves the log as it
\* was before the turn: the player message of the turn, and the tool-use and
\* tool-result messages when the final call is the one that raises, are gone.
C27_FailedTurnLeavesNoMessage ==
    [][/\ pc \in {"awaiting_model", "awaiting_final"}
       /\ pc' = "idle"
       /\ result' = Failure
       => conversation_history' =
              SubSeq(conversation_history, 1,
                     Len(conversation_history)
                         - (IF pc = "awaiting_model" THEN 1 ELSE 3))]_vars

\* C28: the end_combat tool, executed with an adventure loaded after the
\* combat was started with start_combat, adds one entry to
\* progression.combat_encounters.
C28_EndCombatRecordsTheEncounter ==
    [][/\ combat_state = CombatStarted
       /\ probe'.op = "end_combat"
       /\ probe'.calls = Calls + 1
       => Len(metadata'.combat_encounters)
              = Len(metadata.combat_encounters) + 1]_vars

\* C29: a turn whose first model call is sent without the tool set (the
\* Ollama backend) executes no tool and issues no second model call,
\* whatever text the model returns.
C29_NoToolsWithoutToolSet ==
    /\ model_calls # <<>>
    /\ ~model_calls[1].tools
    => /\ executed = <<>>
       /\ Len(model_calls) = 1

====
